---------------------------- MODULE Spec2Model ----------------------------
(***************************************************************************)
(* A model of gogit: the content-addressed object store                    *)
(* (internal/object, internal/utils), the tree builder                     *)
(* (internal/repository) and the staging index (internal/index).           *)
(*                                                                         *)
(* Byte strings are sequences of integers 0..255.  Go's 0-based slices     *)
(* s[a:b] are written Slice(s, a, b).                                      *)
(***************************************************************************)
EXTENDS Integers, Sequences, FiniteSets, TLC

(***************************************************************************)
(* Characters and string literals of the source                            *)
(***************************************************************************)
NUL == 0
LF == 10
SP == 32
PlusCh == 43
MinusCh == 45
SlashCh == 47
ZeroCh == 48
LowerA == 97

StrBlob == <<98, 108, 111, 98>>                                \* "blob"
StrTree == <<116, 114, 101, 101>>                              \* "tree"
StrCommit == <<99, 111, 109, 109, 105, 116>>                   \* "commit"
StrTag == <<116, 97, 103>>                                     \* "tag"
StrParent == <<112, 97, 114, 101, 110, 116>>                   \* "parent"
StrAuthor == <<97, 117, 116, 104, 111, 114>>                   \* "author"
StrCommitter == <<99, 111, 109, 109, 105, 116, 116, 101, 114>> \* "committer"
StrTmp == <<46, 116, 109, 112>>                                \* ".tmp"
StrDirMode == <<52, 48, 48, 48, 48>>                           \* "40000"

(***************************************************************************)
(* Go slice and string primitives                                          *)
(***************************************************************************)
Slice(s, a, b) == SubSeq(s, a + 1, b)

SliceFrom(s, a) == SubSeq(s, a + 1, Len(s))

Min(a, b) == IF a <= b THEN a ELSE b

\* bytes.IndexByte: 0-based position of the first b in s, -1 when absent
IndexByte(s, b) ==
    IF \E i \in 1..Len(s) : s[i] = b
    THEN (CHOOSE i \in 1..Len(s) : s[i] = b /\ \A j \in 1..(i - 1) : s[j] # b) - 1
    ELSE -1

\* 0-based position of the last b in s, -1 when absent
LastIndexByte(s, b) ==
    IF \E i \in 1..Len(s) : s[i] = b
    THEN (CHOOSE i \in 1..Len(s) : s[i] = b /\ \A j \in (i + 1)..Len(s) : s[j] # b) - 1
    ELSE -1

HasSuffixByte(s, b) == Len(s) > 0 /\ s[Len(s)] = b

\* Go's string order: bytewise lexicographic
RECURSIVE LexLess(_, _)
LexLess(a, b) ==
    IF Len(b) = 0 THEN FALSE
    ELSE IF Len(a) = 0 THEN TRUE
    ELSE IF a[1] # b[1] THEN a[1] < b[1]
    ELSE LexLess(Tail(a), Tail(b))

\* Go's integer division and remainder truncate toward zero
GoDiv(a, b) == IF a >= 0 THEN a \div b ELSE -((-a) \div b)

GoMod(a, b) == a - b * GoDiv(a, b)

Abs(n) == IF n < 0 THEN -n ELSE n

IsDigit(c) == c >= ZeroCh /\ c <= ZeroCh + 9

\* the digits of n >= 0 in the given base (digits 0..9 only: base <= 10)
RECURSIVE Digits(_, _)
Digits(n, base) ==
    IF n < base THEN <<ZeroCh + n>>
    ELSE Append(Digits(n \div base, base), ZeroCh + (n % base))

RECURSIVE Zeros(_)
Zeros(k) == IF k <= 0 THEN <<>> ELSE <<ZeroCh>> \o Zeros(k - 1)

\* fmt.Sprintf with %d / %0<width>d / %+0<width>d: the sign counts in the width
FmtInt(n, width, plus) ==
    LET sign == IF n < 0 THEN <<MinusCh>> ELSE IF plus THEN <<PlusCh>> ELSE <<>>
        ds == Digits(Abs(n), 10)
    IN  sign \o Zeros(width - Len(sign) - Len(ds)) \o ds

ItoA(n) == FmtInt(n, 0, FALSE)

\* fmt.Sprintf("%o", n)
FmtOctal(n) == Digits(n, 8)

\* the value of a run of decimal digits
RECURSIVE DigitsValue(_)
DigitsValue(s) ==
    IF Len(s) = 0 THEN 0
    ELSE 10 * DigitsValue(SubSeq(s, 1, Len(s) - 1)) + (s[Len(s)] - ZeroCh)

\* strconv.Atoi: an optional sign and one or more decimal digits
Atoi(s) ==
    LET signed == Len(s) > 0 /\ s[1] \in {PlusCh, MinusCh}
        ds == IF signed THEN Tail(s) ELSE s
    IN  IF Len(ds) = 0 \/ \E i \in 1..Len(ds) : ~IsDigit(ds[i])
        THEN [ok |-> FALSE, val |-> 0]
        ELSE [ok |-> TRUE,
              val |-> IF signed /\ s[1] = MinusCh THEN -DigitsValue(ds)
                      ELSE DigitsValue(ds)]

\* One integer verb of fmt.Sscanf reading at most width bytes of s: an optional
\* sign, then the longest run of digits.  n is the number of bytes consumed.
ScanInt(s, width) ==
    LET t == SubSeq(s, 1, Min(width, Len(s)))
        signed == Len(t) > 0 /\ t[1] \in {PlusCh, MinusCh}
        ds == IF signed THEN Tail(t) ELSE t
        run == IF \E i \in 1..Len(ds) : ~IsDigit(ds[i])
               THEN (CHOOSE i \in 1..Len(ds) :
                        ~IsDigit(ds[i]) /\ \A j \in 1..(i - 1) : IsDigit(ds[j])) - 1
               ELSE Len(ds)
        mag == DigitsValue(SubSeq(ds, 1, run))
    IN  IF run = 0 THEN [ok |-> FALSE, val |-> 0, n |-> 0]
        ELSE [ok |-> TRUE,
              val |-> IF signed /\ t[1] = MinusCh THEN -mag ELSE mag,
              n |-> run + (IF signed THEN 1 ELSE 0)]

\* strings.Split(s, sep) for a one-byte separator
RECURSIVE Split(_, _)
Split(s, sep) ==
    LET i == IndexByte(s, sep)
    IN  IF i = -1 THEN <<s>>
        ELSE <<Slice(s, 0, i)>> \o Split(SliceFrom(s, i + 1), sep)

\* strings.Join(parts, sep) for a one-byte separator
RECURSIVE Join(_, _)
Join(parts, sep) ==
    IF Len(parts) = 0 THEN <<>>
    ELSE IF Len(parts) = 1 THEN parts[1]
    ELSE parts[1] \o <<sep>> \o Join(Tail(parts), sep)

\* strings.TrimRight(s, "\n")
RECURSIVE TrimRightLF(_)
TrimRightLF(s) ==
    IF HasSuffixByte(s, LF) THEN TrimRightLF(SubSeq(s, 1, Len(s) - 1)) ELSE s

(***************************************************************************)
(* internal/utils: hex, SHA-1, zlib                                        *)
(***************************************************************************)
HashSize == 20

HexDigit(n) == IF n < 10 THEN ZeroCh + n ELSE LowerA + (n - 10)

HexValue(c) == IF IsDigit(c) THEN c - ZeroCh ELSE c - LowerA + 10

IsHexDigit(c) == IsDigit(c) \/ (c >= LowerA /\ c <= LowerA + 5)

\* hex.EncodeToString
RECURSIVE BytesToHex(_)
BytesToHex(data) ==
    IF Len(data) = 0 THEN <<>>
    ELSE <<HexDigit(data[1] \div 16), HexDigit(data[1] % 16)>> \o BytesToHex(Tail(data))

\* hex.DecodeString; the callers drop its error and keep the bytes decoded
\* before the first invalid pair
RECURSIVE HexToBytes(_)
HexToBytes(hexStr) ==
    IF Len(hexStr) < 2 \/ ~IsHexDigit(hexStr[1]) \/ ~IsHexDigit(hexStr[2]) THEN <<>>
    ELSE <<16 * HexValue(hexStr[1]) + HexValue(hexStr[2])>>
         \o HexToBytes(SubSeq(hexStr, 3, Len(hexStr)))

\* the sum of terms[lo..hi] modulo m, by halving
RECURSIVE SumMod(_, _, _, _)
SumMod(terms, lo, hi, m) ==
    IF lo > hi THEN 0
    ELSE IF lo = hi THEN terms[lo] % m
    ELSE (SumMod(terms, lo, (lo + hi) \div 2, m)
          + SumMod(terms, ((lo + hi) \div 2) + 1, hi, m)) % m

\* sha1.Sum is a 160-bit digest.  The model keeps its width and its use as a
\* collision-free function of the bytes: six 22-bit lanes (3 bytes each), each
\* a position-weighted sum of the bytes, followed by the 16-bit length.
LaneMul == <<314159, 271829, 161807, 141439, 173207, 223621>>

LaneMod == <<4194301, 4194287, 4194277, 4194271, 4194247, 4194217>>

Lane(data, k) ==
    SumMod([i \in 1..Len(data) |->
               (data[i] + 1) * (((i * LaneMul[k]) % LaneMod[k]) + 1)],
           1, Len(data), LaneMod[k])

Sha1Sum(data) ==
    LET h == <<Lane(data, 1), Lane(data, 2), Lane(data, 3),
               Lane(data, 4), Lane(data, 5), Lane(data, 6)>>
    IN  [i \in 1..HashSize |->
            IF i <= 18
            THEN LET v == h[((i - 1) \div 3) + 1]
                     j == (i - 1) % 3
                 IN  IF j = 0 THEN v \div 65536
                     ELSE IF j = 1 THEN (v \div 256) % 256
                     ELSE v % 256
            ELSE IF i = 19 THEN (Len(data) \div 256) % 256
            ELSE Len(data) % 256]

HashBytes(data) == BytesToHex(Sha1Sum(data))

\* the framing header "<type> <size>\x00"
Header(objType, size) == objType \o <<SP>> \o ItoA(size) \o <<NUL>>

HashObject(objType, data) == BytesToHex(Sha1Sum(Header(objType, Len(data)) \o data))

\* zlib: a 2-byte header (0x78 0x9c), the deflate stream and the big-endian
\* Adler-32 of the plain bytes.  The deflate stream is modelled as stored
\* (uncompressed) bytes; header and checksum are checked on the way back.
AdlerMod == 65521

\* Adler-32: a = 1 + sum of the bytes, b = sum of the running values of a
Adler32(data) ==
    LET n == Len(data)
        a == (1 + SumMod(data, 1, n, AdlerMod)) % AdlerMod
        b == (n + SumMod([i \in 1..n |-> ((n - i + 1) % AdlerMod) * data[i]],
                         1, n, AdlerMod)) % AdlerMod
    IN  <<b \div 256, b % 256, a \div 256, a % 256>>

ZlibHeader == <<120, 156>>

Compress(data) == ZlibHeader \o data \o Adler32(data)

Decompress(data) ==
    IF Len(data) < 6 \/ SubSeq(data, 1, 2) # ZlibHeader
    THEN [ok |-> FALSE, data |-> <<>>]
    ELSE LET body == SubSeq(data, 3, Len(data) - 4)
         IN  IF SubSeq(data, Len(data) - 3, Len(data)) # Adler32(body)
             THEN [ok |-> FALSE, data |-> <<>>]
             ELSE [ok |-> TRUE, data |-> body]

(***************************************************************************)
(* internal/object: Blob, Tree, Commit                                     *)
(***************************************************************************)
NewBlob(content) == [kind |-> "blob", content |-> content]

NewTree == [kind |-> "tree", Entries |-> <<>>]

\* Tree.AddEntry
AddEntry(t, mode, name, hash) ==
    [t EXCEPT !.Entries = Append(@, [Mode |-> mode, Name |-> name, Hash |-> hash])]

\* a time.Time: the instant and the zone offset in seconds; zero marks time.Time{}
TimeOf(unix, offset) == [unix |-> unix, offset |-> offset, zero |-> FALSE]

ZeroTime == [unix |-> 0, offset |-> 0, zero |-> TRUE]

\* "-62135596800", what time.Time{}.Unix() prints as
StrZeroUnix == <<45, 54, 50, 49, 51, 53, 53, 57, 54, 56, 48, 48>>

UnixDigits(t) == IF t.zero THEN StrZeroUnix ELSE ItoA(t.unix)

\* NewCommit: author and committer are the same identity at the same instant
NewCommit(treeHash, parentHash, author, message, now) ==
    [kind |-> "commit", TreeHash |-> treeHash, ParentHash |-> parentHash,
     Author |-> author, AuthorTime |-> now,
     Committer |-> author, CommitTime |-> now, Message |-> message]

ObjType(obj) ==
    CASE obj.kind = "blob" -> StrBlob
      [] obj.kind = "tree" -> StrTree
      [] obj.kind = "commit" -> StrCommit

\* sort.Slice(sorted, less by Name): for slices this short Go runs an
\* insertion sort
RECURSIVE InsertByName(_, _)
InsertByName(sorted, e) ==
    IF Len(sorted) = 0 THEN <<e>>
    ELSE IF LexLess(e.Name, sorted[Len(sorted)].Name)
         THEN Append(InsertByName(SubSeq(sorted, 1, Len(sorted) - 1), e),
                     sorted[Len(sorted)])
         ELSE Append(sorted, e)

\* a Content that serializes the entries in the order they were added
KeepOrder(entries) == entries

RECURSIVE SortByName(_)
SortByName(entries) ==
    IF Len(entries) = 0 THEN <<>>
    ELSE InsertByName(SortByName(SubSeq(entries, 1, Len(entries) - 1)),
                      entries[Len(entries)])

RECURSIVE TreeBytes(_)
TreeBytes(sorted) ==
    IF Len(sorted) = 0 THEN <<>>
    ELSE sorted[1].Mode \o <<SP>> \o sorted[1].Name \o <<NUL>>
         \o HexToBytes(sorted[1].Hash) \o TreeBytes(Tail(sorted))

\* Tree.Content
TreeContent(t) == TreeBytes(SortByName(t.Entries))

\* the zone of Commit.Content: fmt.Sprintf("%+03d%02d", offset/3600, (offset%3600)/60)
TzOffset(offset) ==
    FmtInt(GoDiv(offset, 3600), 3, TRUE) \o FmtInt(GoDiv(GoMod(offset, 3600), 60), 2, FALSE)

\* Commit.Content
CommitContent(c) ==
    LET tz == TzOffset(c.AuthorTime.offset)
    IN  StrTree \o <<SP>> \o c.TreeHash \o <<LF>>
        \o (IF c.ParentHash # <<>> THEN StrParent \o <<SP>> \o c.ParentHash \o <<LF>>
            ELSE <<>>)
        \o StrAuthor \o <<SP>> \o c.Author \o <<SP>> \o UnixDigits(c.AuthorTime)
        \o <<SP>> \o tz \o <<LF>>
        \o StrCommitter \o <<SP>> \o c.Committer \o <<SP>> \o UnixDigits(c.CommitTime)
        \o <<SP>> \o tz \o <<LF>>
        \o <<LF>>
        \o c.Message
        \o (IF ~HasSuffixByte(c.Message, LF) THEN <<LF>> ELSE <<>>)

\* Object.Content
Content(obj) ==
    CASE obj.kind = "blob" -> obj.content
      [] obj.kind = "tree" -> TreeContent(obj)
      [] obj.kind = "commit" -> CommitContent(obj)

\* Blob.Hash, Tree.Hash, Commit.Hash
Hash(obj) ==
    CASE obj.kind = "blob" -> HashObject(StrBlob, obj.content)
      [] obj.kind = "tree" -> HashObject(StrTree, TreeContent(obj))
      [] obj.kind = "commit" -> HashObject(StrCommit, CommitContent(obj))

NoObject == [kind |-> "none"]

Failed(err) == [ok |-> FALSE, err |-> err, obj |-> NoObject]

Parsed(obj) == [ok |-> TRUE, err |-> "", obj |-> obj]

\* ParseTree: the loop from byte offset pos, entries parsed so far in acc
RECURSIVE ParseTreeFrom(_, _, _)
ParseTreeFrom(content, pos, acc) ==
    IF pos >= Len(content) THEN Parsed([kind |-> "tree", Entries |-> acc])
    ELSE LET spaceIdx == IndexByte(SliceFrom(content, pos), SP)
         IN  IF spaceIdx = -1 THEN Failed("invalid tree entry: no space found")
             ELSE LET mode == Slice(content, pos, pos + spaceIdx)
                      pos2 == pos + spaceIdx + 1
                      nullIdx == IndexByte(SliceFrom(content, pos2), NUL)
                 IN  IF nullIdx = -1
                     THEN Failed("invalid tree entry: no null byte found")
                     ELSE LET name == Slice(content, pos2, pos2 + nullIdx)
                              pos3 == pos2 + nullIdx + 1
                         IN  IF pos3 + HashSize > Len(content)
                             THEN Failed("invalid tree entry: truncated hash")
                             ELSE ParseTreeFrom(content, pos3 + HashSize,
                                      Append(acc,
                                          [Mode |-> mode, Name |-> name,
                                           Hash |-> BytesToHex(
                                               Slice(content, pos3, pos3 + HashSize))]))

ParseTree(content) == ParseTreeFrom(content, 0, <<>>)

\* parseAuthorLine: "Name <email> timestamp timezone"
parseAuthorLine(line) ==
    LET parts == Split(line, SP)
        n == Len(parts)
    IN  IF n < 3 THEN [name |-> line, time |-> ZeroTime]
        ELSE LET tzStr == parts[n]
                 tsStr == parts[n - 1]
                 ts == ScanInt(tsStr, Len(tsStr))
                 hr == ScanInt(tzStr, 3)
                 mn == IF hr.ok THEN ScanInt(SliceFrom(tzStr, hr.n), 2)
                       ELSE [ok |-> FALSE, val |-> 0, n |-> 0]
             IN  [name |-> Join(SubSeq(parts, 1, n - 2), SP),
                  time |-> TimeOf(ts.val, hr.val * 3600 + mn.val * 60)]

EmptyCommit ==
    [kind |-> "commit", TreeHash |-> <<>>, ParentHash |-> <<>>,
     Author |-> <<>>, AuthorTime |-> ZeroTime,
     Committer |-> <<>>, CommitTime |-> ZeroTime, Message |-> <<>>]

\* one header line of ParseCommit: strings.SplitN(line, " ", 2) and the key switch
CommitHeaderLine(commit, line) ==
    LET sp == IndexByte(line, SP)
        key == Slice(line, 0, sp)
        value == SliceFrom(line, sp + 1)
    IN  IF sp = -1 THEN commit
        ELSE IF key = StrTree THEN [commit EXCEPT !.TreeHash = value]
        ELSE IF key = StrParent THEN [commit EXCEPT !.ParentHash = value]
        ELSE IF key = StrAuthor
             THEN [commit EXCEPT !.Author = parseAuthorLine(value).name,
                                 !.AuthorTime = parseAuthorLine(value).time]
        ELSE IF key = StrCommitter
             THEN [commit EXCEPT !.Committer = parseAuthorLine(value).name,
                                 !.CommitTime = parseAuthorLine(value).time]
        ELSE commit

\* the line loop of ParseCommit
RECURSIVE ParseCommitLines(_, _, _, _, _)
ParseCommitLines(lines, i, commit, inMessage, messageLines) ==
    IF i > Len(lines)
    THEN [commit EXCEPT !.Message = TrimRightLF(Join(messageLines, LF))]
    ELSE IF inMessage
         THEN ParseCommitLines(lines, i + 1, commit, TRUE, Append(messageLines, lines[i]))
    ELSE IF lines[i] = <<>>
         THEN ParseCommitLines(lines, i + 1, commit, TRUE, messageLines)
    ELSE ParseCommitLines(lines, i + 1, CommitHeaderLine(commit, lines[i]),
                          FALSE, messageLines)

ParseCommit(content) ==
    Parsed(ParseCommitLines(Split(content, LF), 1, EmptyCommit, FALSE, <<>>))

\* a ParseObject that does not compare the content length with the header
ParseObjectNoSizeCheck(data) ==
    LET nullIdx == IndexByte(data, NUL)
        header == Slice(data, 0, nullIdx)
        content == SliceFrom(data, nullIdx + 1)
        spaceIdx == IndexByte(header, SP)
        objType == Slice(header, 0, spaceIdx)
        size == Atoi(SliceFrom(header, spaceIdx + 1))
    IN  IF nullIdx = -1 THEN Failed("invalid object: no null byte found")
        ELSE IF spaceIdx = -1 THEN Failed("invalid object header")
        ELSE IF ~size.ok THEN Failed("invalid object size")
        ELSE IF objType = StrBlob THEN Parsed(NewBlob(content))
        ELSE IF objType = StrTree THEN ParseTree(content)
        ELSE IF objType = StrCommit THEN ParseCommit(content)
        ELSE Failed("unknown object type")

\* ParseObject: a raw (decompressed) object
ParseObject(data) ==
    LET nullIdx == IndexByte(data, NUL)
        header == Slice(data, 0, nullIdx)
        content == SliceFrom(data, nullIdx + 1)
        spaceIdx == IndexByte(header, SP)
        objType == Slice(header, 0, spaceIdx)
        size == Atoi(SliceFrom(header, spaceIdx + 1))
    IN  IF nullIdx = -1 THEN Failed("invalid object: no null byte found")
        ELSE IF spaceIdx = -1 THEN Failed("invalid object header")
        ELSE IF ~size.ok THEN Failed("invalid object size")
        ELSE IF Len(content) # size.val THEN Failed("object size mismatch")
        ELSE IF objType = StrBlob THEN Parsed(NewBlob(content))
        ELSE IF objType = StrTree THEN ParseTree(content)
        ELSE IF objType = StrCommit THEN ParseCommit(content)
        ELSE Failed("unknown object type")

(***************************************************************************)
(* The object directory on disk.  A file system fs is                      *)
(*   dirs    the object sub-directories that exist (named by id[0:2]),     *)
(*   dirent  the directory entries: path -> inode number,                  *)
(*   inodes  the files: inode number -> [data, perm].                      *)
(* An open descriptor names an inode, so a writer keeps writing to the     *)
(* file it opened after that file is renamed.                              *)
(***************************************************************************)
EmptyFs == [dirs |-> {}, dirent |-> <<>>, inodes |-> <<>>]

\* filepath.Join(repoPath, ".gogit", "objects", hash[:2], hash[2:])
ObjPath(hash) == [dir |-> Slice(hash, 0, 2), name |-> SliceFrom(hash, 2)]

\* objPath + ".tmp"
TmpPath(hash) == [dir |-> Slice(hash, 0, 2), name |-> SliceFrom(hash, 2) \o StrTmp]

Exists(fs, path) == path \in DOMAIN fs.dirent

FileData(fs, path) == fs.inodes[fs.dirent[path]].data

\* permission bits 0444 of an object file
ObjectPerm == 292

OwnerWritable(perm) == (perm \div 128) % 2 = 1

\* os.ReadFile
ReadFile(fs, path) ==
    IF Exists(fs, path) THEN [ok |-> TRUE, data |-> FileData(fs, path)]
    ELSE [ok |-> FALSE, data |-> <<>>]

Link(dirent, path, ino) ==
    [q \in (DOMAIN dirent) \cup {path} |-> IF q = path THEN ino ELSE dirent[q]]

Unlink(dirent, path) == [q \in (DOMAIN dirent) \ {path} |-> dirent[q]]

\* write(2) of bytes at offset off of a file holding data; a gap reads as zeros
RECURSIVE ZeroBytes(_)
ZeroBytes(k) == IF k <= 0 THEN <<>> ELSE <<0>> \o ZeroBytes(k - 1)

WriteAt(data, off, bytes) ==
    SubSeq(data, 1, Min(off, Len(data))) \o ZeroBytes(off - Len(data)) \o bytes
    \o SubSeq(data, off + Len(bytes) + 1, Len(data))

(***************************************************************************)
(* WriteObject, one system call at a time.  A call in progress is a record *)
(*   pc    "idle" | "stat" | "open" | "write" | "rename" | "crashed",      *)
(*   obj   the object, store its framed bytes, hash its id,                *)
(*   buf   the compressed bytes,                                           *)
(*   fd    the inode of the open temp file, off the bytes written so far,  *)
(*   ret   what the last call returned.                                    *)
(* Every step maps (fs, call) to [fs, pr].                                 *)
(***************************************************************************)
NoRet == [ok |-> FALSE, hash |-> <<>>, err |-> "pending"]

RetOk(hash) == [ok |-> TRUE, hash |-> hash, err |-> ""]

RetErr(err) == [ok |-> FALSE, hash |-> <<>>, err |-> err]

IdleCall ==
    [pc |-> "idle", obj |-> NoObject, store |-> <<>>, hash |-> <<>>, buf |-> <<>>,
     fd |-> 0, off |-> 0, ret |-> NoRet]

Return(pr, ret) ==
    [pr EXCEPT !.pc = "idle", !.store = <<>>, !.buf = <<>>, !.fd = 0, !.off = 0,
               !.ret = ret]

\* a frame whose header leaves out the content length
StoreNoSize(obj) == ObjType(obj) \o <<NUL>> \o Content(obj)

\* the framed object WriteObject hashes and stores
Store(obj) == Header(ObjType(obj), Len(Content(obj))) \o Content(obj)

\* object.go 93-104: frame, hash, MkdirAll
WriteBegin(fs, obj) ==
    LET Hashed(store, hash) ==
            [fs |-> [fs EXCEPT !.dirs = @ \cup {Slice(hash, 0, 2)}],
             pr |-> [IdleCall EXCEPT !.pc = "stat", !.obj = obj, !.store = store,
                                     !.hash = hash]]
        Framed(store) == Hashed(store, HashBytes(store))
    IN  Framed(Store(obj))

\* a WriteObject that does not look for the object before writing it
WriteStatNoCheck(fs, pr) ==
    [fs |-> fs, pr |-> [pr EXCEPT !.pc = "open", !.buf = Compress(pr.store)]]

\* object.go 106-114: return early if the object exists, else compress
WriteStat(fs, pr) ==
    IF Exists(fs, ObjPath(pr.hash))
    THEN [fs |-> fs, pr |-> Return(pr, RetOk(pr.hash))]
    ELSE [fs |-> fs, pr |-> [pr EXCEPT !.pc = "open", !.buf = Compress(pr.store)]]

\* object.go 118, os.WriteFile: open(tmpPath, O_WRONLY|O_CREATE|O_TRUNC, 0444).
\* An existing file is truncated if the caller may write it; it is read-only,
\* so only a privileged caller may.
WriteOpen(fs, pr, priv) ==
    LET tmp == TmpPath(pr.hash)
    IN  IF ~Exists(fs, tmp)
        THEN LET ino == Len(fs.inodes) + 1
             IN  [fs |-> [fs EXCEPT
                            !.inodes = Append(@, [data |-> <<>>, perm |-> ObjectPerm]),
                            !.dirent = Link(@, tmp, ino)],
                  pr |-> [pr EXCEPT !.pc = "write", !.fd = ino, !.off = 0]]
        ELSE IF priv \/ OwnerWritable(fs.inodes[fs.dirent[tmp]].perm)
        THEN [fs |-> [fs EXCEPT !.inodes[fs.dirent[tmp]].data = <<>>],
              pr |-> [pr EXCEPT !.pc = "write", !.fd = fs.dirent[tmp], !.off = 0]]
        ELSE [fs |-> fs, pr |-> Return(pr, RetErr("failed to write object"))]

\* object.go 118, os.WriteFile: write n more bytes of buf, close after the last
WriteChunk(fs, pr, n) ==
    [fs |-> [fs EXCEPT !.inodes[pr.fd].data =
                          WriteAt(@, pr.off, SubSeq(pr.buf, pr.off + 1, pr.off + n))],
     pr |-> [pr EXCEPT !.off = pr.off + n,
                       !.pc = IF pr.off + n = Len(pr.buf) THEN "rename" ELSE "write"]]

\* object.go 122-127: rename(tmpPath, objPath); on failure remove tmpPath
WriteRename(fs, pr) ==
    LET tmp == TmpPath(pr.hash)
    IN  IF Exists(fs, tmp)
        THEN [fs |-> [fs EXCEPT !.dirent = Unlink(Link(@, ObjPath(pr.hash), fs.dirent[tmp]),
                                                  tmp)],
              pr |-> Return(pr, RetOk(pr.hash))]
        ELSE [fs |-> fs, pr |-> Return(pr, RetErr("failed to rename object"))]

\* a whole call with no other process running in between
RECURSIVE WriteRun(_, _, _)
WriteRun(fs, pr, priv) ==
    IF pr.pc = "idle" THEN [fs |-> fs, pr |-> pr]
    ELSE LET Go(nx) == WriteRun(nx.fs, nx.pr, priv)
         IN  Go(CASE pr.pc = "stat" -> WriteStat(fs, pr)
                  [] pr.pc = "open" -> WriteOpen(fs, pr, priv)
                  [] pr.pc = "write" -> WriteChunk(fs, pr, Len(pr.buf) - pr.off)
                  [] pr.pc = "rename" -> WriteRename(fs, pr))

\* WriteObject
WriteObject(fs, obj, priv) ==
    LET Run(b) == WriteRun(b.fs, b.pr, priv) IN Run(WriteBegin(fs, obj))

\* ReadObject
ReadObject(fs, hash) ==
    IF Len(hash) < 4 THEN Failed("hash too short")
    ELSE LET file == ReadFile(fs, ObjPath(hash))
             plain == Decompress(file.data)
         IN  IF ~file.ok THEN Failed("failed to read object")
             ELSE IF ~plain.ok THEN Failed("failed to decompress object")
             ELSE ParseObject(plain.data)

InfoErr(err) == [ok |-> FALSE, err |-> err, type |-> <<>>, size |-> 0, panic |-> FALSE]

InfoPanic(err) == [ok |-> FALSE, err |-> err, type |-> <<>>, size |-> 0, panic |-> TRUE]

\* GetObjectInfo: hash[:2] is sliced without a length check
GetObjectInfo(fs, hash) ==
    IF Len(hash) < 2 THEN InfoPanic("slice bounds out of range")
    ELSE LET file == ReadFile(fs, ObjPath(hash))
             plain == Decompress(file.data)
             data == plain.data
             nullIdx == IndexByte(data, NUL)
             header == Slice(data, 0, nullIdx)
             spaceIdx == IndexByte(header, SP)
             size == Atoi(SliceFrom(header, spaceIdx + 1))
         IN  IF ~file.ok THEN InfoErr("failed to read object")
             ELSE IF ~plain.ok THEN InfoErr("failed to decompress object")
             ELSE IF nullIdx = -1 THEN InfoErr("invalid object: no null byte found")
             ELSE IF spaceIdx = -1 THEN InfoErr("invalid object header")
             ELSE IF ~size.ok THEN InfoErr("invalid object size")
             ELSE [ok |-> TRUE, err |-> "", type |-> Slice(header, 0, spaceIdx),
                   size |-> size.val, panic |-> FALSE]

(***************************************************************************)
(* State                                                                   *)
(***************************************************************************)
VARIABLES
    fs,          \* the object directory on disk
    privileged,  \* whether the processes may open read-only files for writing
    proc,        \* the WriteObject call of each process
    ncalls,      \* WriteObject calls started so far
    rd,          \* the last ReadObject / GetObjectInfo and what it returned
    log,         \* the calls of the sequential session, oldest first
    input,       \* the file the reading session finds on disk
    idx,         \* Index.Entries
    tree,        \* a Tree under construction
    built,       \* what the last BuildTreeRecursive returned
    pool,        \* the objects the session's callers hand to WriteObject
    ixfile,      \* the index file on disk
    ixres,       \* what the last parseIndex returned
    dif,         \* the texts of a diff session and what it computed
    head,        \* the HEAD file
    refs,        \* the files under refs/heads, by branch name
    work,        \* the files of the working tree, by path
    cmd,         \* the last command of the session and how it ended
    zone         \* a commit made at some UTC offset, written and read back

vars ==
    <<fs, privileged, proc, ncalls, rd, log, input, idx, tree, built, pool,
      ixfile, ixres, dif, head, refs, work, cmd, zone>>

Procs == {1, 2}

NoRead ==
    [op |-> "none", hash |-> <<>>, ok |-> FALSE, err |-> "", panic |-> FALSE,
     type |-> <<>>, size |-> 0]

\* what a ReadObject of hash returned: the outcome, and the type and content
\* length of the object it returned
ReadResult(hash, r) ==
    [op |-> "read", hash |-> hash, ok |-> r.ok, err |-> r.err, panic |-> FALSE,
     type |-> IF r.ok THEN ObjType(r.obj) ELSE <<>>,
     size |-> IF r.ok THEN Len(Content(r.obj)) ELSE 0]

\* what a GetObjectInfo of hash returned
InfoResult(hash, g) ==
    [op |-> "info", hash |-> hash, ok |-> g.ok, err |-> g.err, panic |-> g.panic,
     type |-> g.type, size |-> g.size]

NoInput ==
    [shape |-> "none", typ |-> <<>>, sizeText |-> <<>>, numeric |-> FALSE,
     declared |-> 0, content |-> <<>>, raw |-> <<>>]

NoBuilt == [state |-> "none", hash |-> <<>>]

StoreIdle == proc = [p \in Procs |-> IdleCall] /\ ncalls = 0

SeqIdle == log = <<>>

ReadIdle == input = NoInput

TreeIdle == idx = <<>> /\ tree = NewTree /\ built = NoBuilt

\* the index file: absent until the first Index.Write
NoFile == [exists |-> FALSE, data |-> <<>>]

NoParse == [state |-> "none", err |-> "", entries |-> <<>>, ends |-> <<>>, data |-> <<>>]

NoDiff ==
    [stage |-> "none", oldText |-> <<>>, newText |-> <<>>, old |-> <<>>,
     new |-> <<>>, changes |-> <<>>, hunks |-> <<>>, out |-> <<>>]

IndexIdle == ixfile = NoFile /\ ixres = NoParse

DiffIdle == dif = NoDiff

NoCmd == [op |-> "none", ok |-> TRUE, err |-> "", hash |-> <<>>]

NoZone == [stage |-> "none", offset |-> 0, content |-> <<>>, parsed |-> 0]

\* no repository in play: no HEAD file, no refs, no working tree
RepoIdle ==
    /\ head = [exists |-> FALSE, data |-> <<>>]
    /\ refs = <<>> /\ work = <<>> /\ cmd = NoCmd /\ zone = NoZone

(***************************************************************************)
(* Sample objects                                                          *)
(***************************************************************************)
BlobEmpty == NewBlob(<<>>)

BlobHi == NewBlob(<<104, 105>>)                     \* "hi"

ModeRegular == 33188                                \* 0100644

ModeExecutable == 33261                             \* 0100755

\* entries added out of name order: b, then a
TreeBA ==
    AddEntry(AddEntry(NewTree, FmtOctal(ModeRegular), <<98>>, Hash(BlobHi)),
             FmtOctal(ModeExecutable), <<97>>, Hash(BlobEmpty))

\* the same entries added in name order
TreeAB ==
    AddEntry(AddEntry(NewTree, FmtOctal(ModeExecutable), <<97>>, Hash(BlobEmpty)),
             FmtOctal(ModeRegular), <<98>>, Hash(BlobHi))

AuthorId == <<65, 32, 60, 97, 64, 98, 62>>          \* "A <a@b>"

(***************************************************************************)
(* Spec: processes sharing one repository call WriteObject concurrently,   *)
(* may crash between two system calls, and a reader calls ReadObject.      *)
(***************************************************************************)
MaxCalls == 3

ConcPool == <<BlobEmpty, BlobHi>>

ConcHash == <<Hash(BlobEmpty), Hash(BlobHi)>>

Init ==
    /\ fs = EmptyFs
    /\ privileged \in BOOLEAN
    /\ pool = ConcPool
    /\ RepoIdle
    /\ IndexIdle /\ DiffIdle
    /\ StoreIdle
    /\ rd = NoRead
    /\ SeqIdle /\ ReadIdle /\ TreeIdle

Step(p, nx) ==
    /\ fs' = nx.fs
    /\ proc' = [proc EXCEPT ![p] = nx.pr]
    /\ UNCHANGED <<privileged, rd, log, input, idx, tree, built, pool, ixfile, ixres, dif, head, refs, work, cmd, zone>>

Begin(p, k) ==
    /\ proc[p].pc = "idle"
    /\ ncalls < MaxCalls
    /\ ncalls' = ncalls + 1
    /\ Step(p, WriteBegin(fs, pool[k]))

Stat(p) ==
    /\ proc[p].pc = "stat"
    /\ Step(p, WriteStat(fs, proc[p]))
    /\ UNCHANGED ncalls

Open(p) ==
    /\ proc[p].pc = "open"
    /\ Step(p, WriteOpen(fs, proc[p], privileged))
    /\ UNCHANGED ncalls

\* the kernel takes the buffer whole, or the first half and then the rest
Chunk(p) ==
    /\ proc[p].pc = "write"
    /\ \E n \in {Len(proc[p].buf) - proc[p].off}
                \cup (IF proc[p].off = 0 THEN {Len(proc[p].buf) \div 2} ELSE {}) :
          Step(p, WriteChunk(fs, proc[p], n))
    /\ UNCHANGED ncalls

Rename(p) ==
    /\ proc[p].pc = "rename"
    /\ Step(p, WriteRename(fs, proc[p]))
    /\ UNCHANGED ncalls

\* the process dies inside a call; its descriptors close, the files stay
Crash(p) ==
    /\ proc[p].pc \in {"stat", "open", "write", "rename"}
    /\ proc' = [proc EXCEPT ![p].pc = "crashed"]
    /\ UNCHANGED <<fs, privileged, ncalls, rd, log, input, idx, tree, built, pool, ixfile, ixres, dif, head, refs, work, cmd, zone>>

Read(k) ==
    /\ rd' = ReadResult(ConcHash[k], ReadObject(fs, ConcHash[k]))
    /\ UNCHANGED <<fs, privileged, proc, ncalls, log, input, idx, tree, built, pool, ixfile, ixres, dif, head, refs, work, cmd, zone>>

Next ==
    \/ \E p \in Procs, k \in DOMAIN pool : Begin(p, k)
    \/ \E p \in Procs : Stat(p)
    \/ \E p \in Procs : Open(p)
    \/ \E p \in Procs : Chunk(p)
    \/ \E p \in Procs : Rename(p)
    \/ \E p \in Procs : Crash(p)
    \/ \E k \in DOMAIN ConcPool : Read(k)

Spec == Init /\ [][Next]_vars

\* C2: at every moment and at every crash point the file at an object's final
\* location is absent or holds the complete compressed object, and a concurrent
\* ReadObject finds the object or no file, never an empty or partial one.
C2_FinalNeverPartial ==
    /\ \A k \in DOMAIN ConcPool :
          Exists(fs, ObjPath(ConcHash[k]))
              => FileData(fs, ObjPath(ConcHash[k])) = Compress(Store(ConcPool[k]))
    /\ rd.op = "read" => (rd.ok \/ rd.err = "failed to read object")

\* C3: when processes race to write the same object and none crashes, every
\* call that has returned succeeded with the object's id, and once all have
\* returned the complete object is stored under that id.
C3_RacingWritersSucceed ==
    (\A q \in Procs : proc[q].pc # "crashed")
        => /\ \A p \in Procs :
                 (proc[p].pc = "idle" /\ proc[p].ret # NoRet)
                     => proc[p].ret = RetOk(Hash(proc[p].obj))
           /\ (\A p \in Procs : proc[p].pc = "idle")
                 => \A p \in Procs :
                       proc[p].ret # NoRet
                           => /\ Exists(fs, ObjPath(Hash(proc[p].obj)))
                              /\ FileData(fs, ObjPath(Hash(proc[p].obj)))
                                     = Compress(Store(proc[p].obj))

(***************************************************************************)
(* SpecSeq: one process writes and reads objects, one call after another.  *)
(***************************************************************************)
MaxSeqCalls == 2

SampleUnix == 1700000000

\* a commit of TreeBA as NewCommit builds it, at SampleUnix in a zone offset
\* seconds east of UTC
SampleCommit(parentHash, message, offset) ==
    NewCommit(Hash(TreeBA), parentHash, AuthorId, message, TimeOf(SampleUnix, offset))

MsgM == <<109>>                                     \* "m"

\* blobs, two trees with the same entries, a root commit, a commit with a
\* parent, and commits whose message or zone is unusual
SeqPool ==
    <<BlobHi, TreeBA, TreeAB,
      SampleCommit(<<>>, MsgM, 0),
      SampleCommit(Hash(BlobHi), <<LF>> \o MsgM \o <<LF>>, 19800),
      SampleCommit(<<>>, MsgM \o <<LF, LF>>, -18000),
      SampleCommit(<<>>, <<>>, -12600)>>

InitSeq ==
    /\ fs = EmptyFs
    /\ privileged \in BOOLEAN
    /\ pool = SeqPool
    /\ RepoIdle
    /\ IndexIdle /\ DiffIdle
    /\ StoreIdle
    /\ rd = NoRead
    /\ SeqIdle /\ ReadIdle /\ TreeIdle

\* WriteObject(pool[k]), start to return
SeqWrite(k) ==
    /\ Len(log) < MaxSeqCalls
    /\ \E w \in {WriteObject(fs, pool[k], privileged)} :
          /\ fs' = w.fs
          /\ log' = Append(log, [k |-> k, ret |-> w.pr.ret])
    /\ UNCHANGED <<privileged, proc, ncalls, rd, input, idx, tree, built, pool, ixfile, ixres, dif, head, refs, work, cmd, zone>>

\* ReadObject of the id the last WriteObject returned
SeqRead ==
    /\ Len(log) > 0
    /\ LET hash == log[Len(log)].ret.hash
       IN  rd' = ReadResult(hash, ReadObject(fs, hash))
    /\ UNCHANGED <<fs, privileged, proc, ncalls, log, input, idx, tree, built, pool, ixfile, ixres, dif, head, refs, work, cmd, zone>>

NextSeq ==
    \/ \E k \in DOMAIN pool : SeqWrite(k)
    \/ SeqRead

SpecSeq == InitSeq /\ [][NextSeq]_vars

\* the directory entries that belong to an id: its final file and its temp file
StoredFiles(f, hash) ==
    {q \in DOMAIN f.dirent :
        q.dir = Slice(hash, 0, 2)
        /\ SubSeq(q.name, 1, Len(hash) - 2) = SliceFrom(hash, 2)}

\* C1: a WriteObject of an object that an earlier call of the session has
\* written returns the id the earlier call returned, leaves the file system as
\* it was (no rewrite), and exactly one file is stored for that id.
C1_SecondWriteIsNoOp ==
    [][(Len(log') = Len(log) + 1)
           => \A i \in DOMAIN log :
                 log[i].k = log'[Len(log')].k
                     => /\ log'[Len(log')].ret = log[i].ret
                        /\ log[i].ret.ok
                        /\ fs' = fs
                        /\ StoredFiles(fs', log[i].ret.hash) = {ObjPath(log[i].ret.hash)}
      ]_vars

C1_Witness ==
    /\ Len(log) = 2
    /\ log[1].k = log[2].k
    /\ log[2].ret.ok

\* C4: the id WriteObject returns and stores under is the digest of
\* "<type> <length>\0" + content, the value HashObject and the object's Hash()
\* compute; objects of equal type and content get the same id.
C4_IdIsDigestOfTypeAndContent ==
    /\ log # <<>> =>
          LET last == log[Len(log)]
              x == pool[last.k]
              h == HashObject(ObjType(x), Content(x))
          IN  /\ last.ret = RetOk(h)
              /\ Hash(x) = h
              /\ h = HashBytes(ObjType(x) \o <<SP>> \o ItoA(Len(Content(x))) \o <<NUL>>
                               \o Content(x))
              /\ Decompress(FileData(fs, ObjPath(h))) =
                     [ok |-> TRUE,
                      data |-> ObjType(x) \o <<SP>> \o ItoA(Len(Content(x))) \o <<NUL>>
                                   \o Content(x)]
    /\ \A i \in DOMAIN log : log[i].ret.ok /\ Exists(fs, ObjPath(log[i].ret.hash))
    /\ \A i, j \in DOMAIN log :
          (/\ ObjType(pool[log[i].k]) = ObjType(pool[log[j].k])
           /\ Content(pool[log[i].k]) = Content(pool[log[j].k]))
              => log[i].ret.hash = log[j].ret.hash

C4_Witness ==
    /\ Len(log) = 2
    /\ pool[log[1].k].kind = "tree"
    /\ pool[log[2].k].kind = "tree"
    /\ log[1].k # log[2].k
    /\ log[2].ret.ok

\* C5: every object WriteObject has stored is read back by ReadObject as an
\* object of the same type with byte-identical Content().
C5_StoreLoadRoundTrip ==
    \A i \in DOMAIN log :
        log[i].ret.ok
            => LET x == pool[log[i].k]
                   r == ReadObject(fs, log[i].ret.hash)
               IN  /\ r.ok
                   /\ r.obj.kind = x.kind
                   /\ Content(r.obj) = Content(x)

(***************************************************************************)
(* SpecRead: the repository holds one file under the id ReadId, well formed *)
(* or not, and the session calls ReadObject and GetObjectInfo with id       *)
(* strings of every length.                                                 *)
(***************************************************************************)
ReadId == [i \in 1..2 * HashSize |-> HexDigit((i * 7) % 16)]

MissingId == [i \in 1..2 * HashSize |-> HexDigit(i % 16)]

\* the id strings a caller passes: "", "a", "ab", "abc", ReadId, MissingId
ReadIds ==
    {<<>>, <<LowerA>>, <<LowerA, LowerA + 1>>, <<LowerA, LowerA + 1, LowerA + 2>>,
     ReadId, MissingId}

StrHi == <<104, 105>>                               \* "hi"

StrX == <<120>>                                     \* "x"

\* "<typ> <sizeText>\0" + content
Frame(typ, sizeText, content) == typ \o <<SP>> \o sizeText \o <<NUL>> \o content

\* size fields for a content of n bytes: the text, whether it is a number, and
\* the number it declares
SizeFields(n) ==
    {[text |-> ItoA(n), numeric |-> TRUE, declared |-> n],
     [text |-> ItoA(n + 1), numeric |-> TRUE, declared |-> n + 1],
     [text |-> <<PlusCh>> \o ItoA(n), numeric |-> TRUE, declared |-> n],
     [text |-> <<ZeroCh>> \o ItoA(n), numeric |-> TRUE, declared |-> n],
     [text |-> <<MinusCh, ZeroCh + 1>>, numeric |-> TRUE, declared |-> -1],
     [text |-> StrX, numeric |-> FALSE, declared |-> 0],
     [text |-> <<>>, numeric |-> FALSE, declared |-> 0]}

FramedInput(typ, sz, content) ==
    [shape |-> "framed", typ |-> typ, sizeText |-> sz.text, numeric |-> sz.numeric,
     declared |-> sz.declared, content |-> content,
     raw |-> Frame(typ, sz.text, content)]

UnframedInput(shape, raw) ==
    [shape |-> shape, typ |-> <<>>, sizeText |-> <<>>, numeric |-> FALSE,
     declared |-> 0, content |-> <<>>, raw |-> raw]

ReadInputs ==
    {FramedInput(typ, sz, content) :
        typ \in {StrBlob, StrTree, StrCommit, StrTag, StrX, <<>>},
        sz \in SizeFields(0), content \in {<<>>}}
    \cup {FramedInput(typ, sz, content) :
        typ \in {StrBlob, StrTree, StrCommit, StrTag, StrX, <<>>},
        sz \in SizeFields(2), content \in {StrHi}}
    \cup {FramedInput(typ, sz, content) :
        typ \in {StrTree, StrTag},
        sz \in {x \in SizeFields(Len(Content(TreeBA))) : x.numeric},
        content \in {Content(TreeBA)}}
    \cup {FramedInput(typ, sz, content) :
        typ \in {StrCommit, StrBlob},
        sz \in {x \in SizeFields(Len(Content(SampleCommit(<<>>, MsgM, 0)))) : x.numeric},
        content \in {Content(SampleCommit(<<>>, MsgM, 0))}}
    \cup {UnframedInput("nonul", StrBlob \o <<SP>> \o ItoA(2) \o StrHi),
          UnframedInput("nospace", StrBlob \o ItoA(2) \o <<NUL>> \o StrHi),
          UnframedInput("notzlib", Frame(StrBlob, ItoA(2), StrHi)),
          UnframedInput("empty", <<>>),
          UnframedInput("missing", <<>>)}

\* the bytes of the file an input leaves on disk
InputFile(in) ==
    IF in.shape \in {"framed", "nonul", "nospace"} THEN Compress(in.raw) ELSE in.raw

FsWithFile(hash, data) ==
    [dirs |-> {Slice(hash, 0, 2)},
     dirent |-> Link(<<>>, ObjPath(hash), 1),
     inodes |-> <<[data |-> data, perm |-> ObjectPerm]>>]

InitRead ==
    /\ input \in ReadInputs
    /\ fs = IF input.shape = "missing" THEN EmptyFs
            ELSE FsWithFile(ReadId, InputFile(input))
    /\ privileged = FALSE
    /\ pool = <<>>
    /\ RepoIdle
    /\ IndexIdle /\ DiffIdle
    /\ rd = NoRead
    /\ StoreIdle /\ SeqIdle /\ TreeIdle

\* ReadObject(repoPath, hash)
ReadStep(hash) ==
    /\ rd' = ReadResult(hash, ReadObject(fs, hash))
    /\ UNCHANGED <<fs, privileged, proc, ncalls, log, input, idx, tree, built, pool, ixfile, ixres, dif, head, refs, work, cmd, zone>>

\* GetObjectInfo(repoPath, hash)
InfoStep(hash) ==
    /\ rd' = InfoResult(hash, GetObjectInfo(fs, hash))
    /\ UNCHANGED <<fs, privileged, proc, ncalls, log, input, idx, tree, built, pool, ixfile, ixres, dif, head, refs, work, cmd, zone>>

NextRead ==
    \/ \E hash \in ReadIds : ReadStep(hash)
    \/ \E hash \in ReadIds : InfoStep(hash)

SpecRead == InitRead /\ [][NextRead]_vars

KnownTypes == {StrBlob, StrTree, StrCommit}

\* C6: ReadObject returns no object for a framed file whose content length
\* differs from the size its header declares, or whose type tag is not blob,
\* tree or commit ("tag" included): a size mismatch is reported as size
\* mismatch, a well-sized frame with an unknown tag as unknown type.
C6_RejectsMismatchAndUnknownType ==
    (rd.op = "read" /\ rd.hash = ReadId /\ input.shape = "framed") =>
        /\ (input.numeric /\ input.declared # Len(input.content))
               => (~rd.ok /\ rd.err = "object size mismatch")
        /\ (input.typ \notin KnownTypes) => (~rd.ok /\ rd.err # "")
        /\ (input.numeric /\ input.declared = Len(input.content)
                /\ input.typ \notin KnownTypes)
               => rd.err = "unknown object type"
        /\ rd.ok => (/\ input.numeric
                     /\ input.declared = Len(input.content)
                     /\ input.typ \in KnownTypes
                     /\ rd.type = input.typ)

C6_Witness ==
    /\ rd.op = "read" /\ rd.hash = ReadId
    /\ input.shape = "framed"
    /\ input.typ = StrTag
    /\ input.numeric /\ input.declared = Len(input.content)
    /\ Len(input.content) > 0
    /\ rd.err = "unknown object type"

\* C7: GetObjectInfo agrees with ReadObject: where ReadObject succeeds it
\* returns the object's type and the length of its content, and where
\* ReadObject fails before content parsing (id too short, object missing,
\* decompression failure, missing NUL, missing space, non-numeric size) it
\* returns an error, not a result and not a crash.
C7_InfoAgreesWithRead ==
    rd.op = "info" =>
        LET r == ReadObject(fs, rd.hash)
        IN  /\ r.ok => (/\ rd.ok
                        /\ rd.type = ObjType(r.obj)
                        /\ rd.size = Len(input.content))
            /\ (~r.ok /\ r.err \in {"hash too short", "failed to read object",
                                    "failed to decompress object",
                                    "invalid object: no null byte found",
                                    "invalid object header", "invalid object size"})
                   => (~rd.ok /\ ~rd.panic /\ rd.err # "")

(***************************************************************************)
(* internal/repository: the tree builder                                   *)
(***************************************************************************)
StrDot == <<46>>                                    \* "."

RECURSIVE TrimRightSlash(_)
TrimRightSlash(s) ==
    IF HasSuffixByte(s, SlashCh) THEN TrimRightSlash(SubSeq(s, 1, Len(s) - 1)) ELSE s

\* filepath.Clean of the directory part filepath.Split returns for a relative
\* path without ".", ".." or empty elements: the trailing separator goes
Clean(dir) ==
    LET t == TrimRightSlash(dir)
    IN  IF t # <<>> THEN t ELSE IF dir = <<>> THEN StrDot ELSE <<SlashCh>>

\* splitPath: the loop, with the parts found so far
RECURSIVE splitPathLoop(_, _)
splitPathLoop(path, parts) ==
    IF path = <<>> THEN parts
    ELSE LET i == LastIndexByte(path, SlashCh)
             dir == Slice(path, 0, i + 1)
             file == SliceFrom(path, i + 1)
             parts2 == IF file # <<>> THEN <<file>> \o parts ELSE parts
         IN  IF dir = <<>> THEN parts2
             ELSE IF Clean(dir) = StrDot THEN parts2
             ELSE splitPathLoop(Clean(dir), parts2)

splitPath(path) == splitPathLoop(path, <<>>)

\* Entry.HashString
HashString(e) == BytesToHex(e.Hash)

\* a dirEntry; nil marks a nil entries map, which a file node has
DirNode(name, entries) ==
    [isDir |-> TRUE, mode |-> <<>>, name |-> name, hash |-> <<>>, nil |-> FALSE,
     entries |-> entries]

FileNode(mode, name, hash) ==
    [isDir |-> FALSE, mode |-> mode, name |-> name, hash |-> hash, nil |-> TRUE,
     entries |-> <<>>]

\* m[k] = v on a Go map
MapPut(m, k, v) == [q \in (DOMAIN m) \cup {k} |-> IF q = k THEN v ELSE m[q]]

\* BuildTreeRecursive, the inner loop over the parts of one path, from the
\* node current.  Assigning into the nil map of a file node panics.
RECURSIVE InsertPath(_, _, _)
InsertPath(current, parts, file) ==
    IF current.nil THEN [panic |-> TRUE, node |-> current]
    ELSE IF Len(parts) = 1
    THEN [panic |-> FALSE,
          node |-> [current EXCEPT !.entries = MapPut(@, parts[1], file)]]
    ELSE LET part == parts[1]
             child == IF part \in DOMAIN current.entries THEN current.entries[part]
                      ELSE DirNode(part, <<>>)
             sub == InsertPath(child, Tail(parts), file)
         IN  IF sub.panic THEN [panic |-> TRUE, node |-> current]
             ELSE [panic |-> FALSE,
                   node |-> [current EXCEPT !.entries = MapPut(@, part, sub.node)]]

\* BuildTreeRecursive, the outer loop over idx.Entries from entry i
RECURSIVE InsertEntries(_, _, _)
InsertEntries(root, entries, i) ==
    IF i > Len(entries) THEN [panic |-> FALSE, node |-> root]
    ELSE LET parts == splitPath(entries[i].Path)
             file == FileNode(FmtOctal(entries[i].Mode), parts[Len(parts)],
                              HashString(entries[i]))
             nx == IF parts = <<>> THEN [panic |-> FALSE, node |-> root]
                   ELSE InsertPath(root, parts, file)
         IN  IF nx.panic THEN nx ELSE InsertEntries(nx.node, entries, i + 1)

RECURSIVE SortedNames(_)
SortedNames(S) ==
    IF S = {} THEN <<>>
    ELSE LET m == CHOOSE x \in S : \A y \in S \ {x} : LexLess(x, y)
         IN  <<m>> \o SortedNames(S \ {m})

Reverse(s) == [i \in 1..Len(s) |-> s[Len(s) + 1 - i]]

\* the order a range over a Go map visits its keys: unspecified; the model
\* takes the keys ascending or descending
MapRange(m, ord) ==
    IF ord = "asc" THEN SortedNames(DOMAIN m) ELSE Reverse(SortedNames(DOMAIN m))

BuildOk(f, hash) == [ok |-> TRUE, hash |-> hash, fs |-> f]

BuildErr(f) == [ok |-> FALSE, hash |-> <<>>, fs |-> f]

\* buildTreeFromDir: the loop over dir.entries from names[1], then WriteObject
RECURSIVE buildTreeLoop(_, _, _, _, _, _)
buildTreeLoop(f, dir, names, t, priv, ord) ==
    IF names = <<>>
    THEN LET Written(w) ==
                 IF w.pr.ret.ok THEN BuildOk(w.fs, w.pr.ret.hash) ELSE BuildErr(w.fs)
         IN  Written(WriteObject(f, t, priv))
    ELSE LET name == names[1]
             entry == dir.entries[name]
             Rest(sub) ==
                 IF ~sub.ok THEN sub
                 ELSE buildTreeLoop(sub.fs, dir, Tail(names),
                                    AddEntry(t, StrDirMode, name, sub.hash), priv, ord)
         IN  IF entry.isDir
             THEN Rest(buildTreeLoop(f, entry, MapRange(entry.entries, ord),
                                     NewTree, priv, ord))
             ELSE buildTreeLoop(f, dir, Tail(names),
                                AddEntry(t, entry.mode, name, entry.hash), priv, ord)

buildTreeFromDir(f, dir, priv, ord) ==
    buildTreeLoop(f, dir, MapRange(dir.entries, ord), NewTree, priv, ord)

\* BuildTreeRecursive(idx): "ok" with the root id, "error", or "panic"
BuildTreeRecursive(f, entries, priv, ord) ==
    LET Result(b) ==
            [state |-> IF b.ok THEN "ok" ELSE "error", hash |-> b.hash, fs |-> b.fs]
        Serialize(root) ==
            IF root.panic THEN [state |-> "panic", hash |-> <<>>, fs |-> f]
            ELSE Result(buildTreeFromDir(f, root.node, priv, ord))
    IN  Serialize(InsertEntries(DirNode(<<>>, <<>>), entries, 1))

\* an upsert that never looks for the path
AppendEntry(entries, entry) == Append(entries, entry)

\* idx.UpdateEntry(entry): the entry of that path is replaced, or the entry
\* is appended
UpdateEntry(entries, entry) ==
    IF \E i \in DOMAIN entries : entries[i].Path = entry.Path
    THEN LET i == CHOOSE j \in DOMAIN entries :
                      entries[j].Path = entry.Path
                      /\ \A k \in 1..(j - 1) : entries[k].Path # entry.Path
         IN  [entries EXCEPT ![i] = entry]
    ELSE Append(entries, entry)

(***************************************************************************)
(* SpecTree: a caller fills a Tree with AddEntry, one entry per name as    *)
(* buildTreeFromDir does from the keys of a map, in any order.             *)
(***************************************************************************)
MaxEntries == 3

StrA == <<97>>                                      \* "a"

StrAB == <<97, 98>>                                 \* "ab"

StrB == <<98>>                                      \* "b"

StrC == <<99>>                                      \* "c"

\* for each of four names, a file entry and a different entry of that name
TreeEntryPool ==
    LET hi == Hash(BlobHi)
        empty == Hash(BlobEmpty)
        F(mode, name, hash) == [Mode |-> mode, Name |-> name, Hash |-> hash]
    IN  <<F(FmtOctal(ModeRegular), StrA, hi), F(FmtOctal(ModeExecutable), StrA, empty),
          F(FmtOctal(ModeRegular), StrAB, empty), F(StrDirMode, StrAB, hi),
          F(FmtOctal(ModeExecutable), StrB, hi), F(FmtOctal(ModeRegular), StrB, empty),
          F(StrDirMode, StrC, empty), F(FmtOctal(ModeRegular), StrC, hi)>>

InitTree ==
    /\ tree = NewTree
    /\ pool = TreeEntryPool
    /\ RepoIdle
    /\ IndexIdle /\ DiffIdle
    /\ fs = EmptyFs
    /\ privileged = FALSE
    /\ rd = NoRead
    /\ idx = <<>> /\ built = NoBuilt
    /\ StoreIdle /\ SeqIdle /\ ReadIdle

\* tree.AddEntry(mode, name, hash) for a name the tree does not hold yet
AddEntryStep(k) ==
    /\ Len(tree.Entries) < MaxEntries
    /\ \A i \in DOMAIN tree.Entries : tree.Entries[i].Name # pool[k].Name
    /\ tree' = AddEntry(tree, pool[k].Mode, pool[k].Name, pool[k].Hash)
    /\ UNCHANGED <<fs, privileged, proc, ncalls, rd, log, input, idx, built, pool, ixfile, ixres, dif, head, refs, work, cmd, zone>>

NextTree == \E k \in DOMAIN pool : AddEntryStep(k)

SpecTree == InitTree /\ [][NextTree]_vars

\* the serialization of a set of entries, least name first
RECURSIVE EntrySetBytes(_)
EntrySetBytes(S) ==
    IF S = {} THEN <<>>
    ELSE LET m == CHOOSE x \in S : \A y \in S \ {x} : LexLess(x.Name, y.Name)
         IN  m.Mode \o <<SP>> \o m.Name \o <<NUL>> \o HexToBytes(m.Hash)
             \o EntrySetBytes(S \ {m})

\* C8: a Tree's Content(), and so its id, is determined by its set of
\* (mode, name, id) entries, whatever the order of the AddEntry calls: it is
\* the entries serialized in ascending byte order of name.
C8_ContentIndependentOfOrder ==
    LET S == {tree.Entries[i] : i \in DOMAIN tree.Entries}
    IN  /\ Content(tree) = EntrySetBytes(S)
        /\ Hash(tree) = HashObject(StrTree, EntrySetBytes(S))

C8_Witness ==
    /\ Len(tree.Entries) = 3
    /\ LexLess(tree.Entries[3].Name, tree.Entries[2].Name)
    /\ LexLess(tree.Entries[2].Name, tree.Entries[1].Name)

(***************************************************************************)
(* SpecBuild: a session stages entries with Index.UpdateEntry and then      *)
(* builds the trees with BuildTreeRecursive, as commit does.                *)
(***************************************************************************)
MaxIndex == 3

StrAslashB == <<97, SlashCh, 98>>                   \* "a/b"

StrAslashC == <<97, SlashCh, 99>>                   \* "a/c"

StrDEF == <<100, SlashCh, 101, SlashCh, 102>>       \* "d/e/f"

\* Index entries: the path, the mode and the 20-byte blob id
IndexEntryPool ==
    LET hi == HexToBytes(Hash(BlobHi))
        empty == HexToBytes(Hash(BlobEmpty))
        E(path, mode, hash) == [Path |-> path, Mode |-> mode, Hash |-> hash]
    IN  <<E(StrA, ModeRegular, hi), E(StrA, ModeExecutable, empty),
          E(StrAslashB, ModeRegular, hi), E(StrAslashC, ModeExecutable, empty),
          E(StrB, ModeRegular, empty), E(StrDEF, ModeRegular, hi)>>

InitBuild ==
    /\ idx = <<>>
    /\ built = NoBuilt
    /\ pool = IndexEntryPool
    /\ RepoIdle
    /\ IndexIdle /\ DiffIdle
    /\ fs = EmptyFs
    /\ privileged = FALSE
    /\ rd = NoRead
    /\ tree = NewTree
    /\ StoreIdle /\ SeqIdle /\ ReadIdle

\* idx.UpdateEntry(pool[k]), as AddFile ends
Stage(k) ==
    /\ built = NoBuilt
    /\ (Len(idx) < MaxIndex \/ \E i \in DOMAIN idx : idx[i].Path = pool[k].Path)
    /\ idx' = UpdateEntry(idx, pool[k])
    /\ UNCHANGED <<fs, privileged, proc, ncalls, rd, log, input, tree, built, pool, ixfile, ixres, dif, head, refs, work, cmd, zone>>

\* repo.BuildTreeRecursive(idx)
Build(ord) ==
    /\ built = NoBuilt
    /\ \E b \in {BuildTreeRecursive(fs, idx, privileged, ord)} :
          /\ fs' = b.fs
          /\ built' = [state |-> b.state, hash |-> b.hash]
    /\ UNCHANGED <<privileged, proc, ncalls, rd, log, input, idx, tree, pool, ixfile, ixres, dif, head, refs, work, cmd, zone>>

NextBuild ==
    \/ \E k \in DOMAIN pool : Stage(k)
    \/ \E ord \in {"asc", "desc"} : Build(ord)

SpecBuild == InitBuild /\ [][NextBuild]_vars

\* the orders a sequence can be in
Orderings(entries) ==
    {[i \in DOMAIN entries |-> entries[f[i]]] :
        f \in {g \in [DOMAIN entries -> DOMAIN entries] :
                  \A i, j \in DOMAIN entries : g[i] = g[j] => i = j}}

\* C9: BuildTreeRecursive gives the same outcome, the same root tree id, for
\* the staged entries in every order, also when one staged path is a directory
\* prefix of another.
C9_BuildOrderIndependent ==
    built.state # "none" =>
        \A entries \in Orderings(idx) :
            LET b == BuildTreeRecursive(fs, entries, privileged, "asc")
            IN  b.state = built.state /\ b.hash = built.hash

\* the file entries reached from the tree stored under hash, with their paths
\* below prefix; a subtree that cannot be read shows as an entry without mode
RECURSIVE TreeFiles(_, _, _)
TreeFiles(f, hash, prefix) ==
    LET r == ReadObject(f, hash)
    IN  IF ~r.ok \/ r.obj.kind # "tree"
        THEN {[Path |-> prefix, Mode |-> <<>>, Hash |-> hash]}
        ELSE UNION {IF r.obj.Entries[i].Mode = StrDirMode
                    THEN TreeFiles(f, r.obj.Entries[i].Hash,
                                   prefix \o r.obj.Entries[i].Name \o <<SlashCh>>)
                    ELSE {[Path |-> prefix \o r.obj.Entries[i].Name,
                           Mode |-> r.obj.Entries[i].Mode,
                           Hash |-> r.obj.Entries[i].Hash]} :
                    i \in DOMAIN r.obj.Entries}

\* every tree reached from hash lists non-empty names without a separator
RECURSIVE SingleSegmentNames(_, _)
SingleSegmentNames(f, hash) ==
    LET r == ReadObject(f, hash)
    IN  /\ r.ok
        /\ r.obj.kind = "tree"
        /\ \A i \in DOMAIN r.obj.Entries :
              /\ r.obj.Entries[i].Name # <<>>
              /\ IndexByte(r.obj.Entries[i].Name, SlashCh) = -1
              /\ r.obj.Entries[i].Mode = StrDirMode
                    => SingleSegmentNames(f, r.obj.Entries[i].Hash)

\* C10: for every Index, the empty one included, BuildTreeRecursive returns
\* without error and the stored hierarchy holds exactly the staged set: each
\* tree lists immediate children under single-segment names, and the file
\* entries reached from the root are the staged (path, mode, id) triples.
C10_HierarchyIsStagedSet ==
    built.state # "none" =>
        /\ built.state = "ok"
        /\ SingleSegmentNames(fs, built.hash)
        /\ TreeFiles(fs, built.hash, <<>>) =
               {[Path |-> idx[i].Path, Mode |-> FmtOctal(idx[i].Mode),
                 Hash |-> HashString(idx[i])] : i \in DOMAIN idx}

(***************************************************************************)
(* Index: the staged entries, kept in a slice and searched by path         *)
(***************************************************************************)
\* idx.RemoveEntry(path): the first entry of that path is cut out
RemoveEntry(entries, path) ==
    IF \E i \in DOMAIN entries : entries[i].Path = path
    THEN LET i == CHOOSE j \in DOMAIN entries :
                      entries[j].Path = path
                      /\ \A k \in 1..(j - 1) : entries[k].Path # path
         IN  SubSeq(entries, 1, i - 1) \o SubSeq(entries, i + 1, Len(entries))
    ELSE entries

NotFound == [found |-> FALSE, entry |-> <<>>]

\* idx.GetEntry(path): the first entry of that path, or nil
GetEntry(entries, path) ==
    IF \E i \in DOMAIN entries : entries[i].Path = path
    THEN LET i == CHOOSE j \in DOMAIN entries :
                      entries[j].Path = path
                      /\ \A k \in 1..(j - 1) : entries[k].Path # path
         IN  [found |-> TRUE, entry |-> entries[i]]
    ELSE NotFound

(***************************************************************************)
(* SpecIndex: a session calls UpdateEntry and RemoveEntry on an Index that *)
(* NewIndex made; log keeps the calls.                                     *)
(***************************************************************************)
MaxOps == 3

IndexPaths == {pool[k].Path : k \in DOMAIN pool}

InitIndex ==
    /\ idx = <<>>
    /\ log = <<>>
    /\ pool = IndexEntryPool
    /\ RepoIdle
    /\ IndexIdle /\ DiffIdle
    /\ fs = EmptyFs
    /\ privileged = FALSE
    /\ rd = NoRead
    /\ tree = NewTree /\ built = NoBuilt
    /\ StoreIdle /\ ReadIdle

\* idx.UpdateEntry(pool[k])
Upsert(k) ==
    /\ Len(log) < MaxOps
    /\ idx' = UpdateEntry(idx, pool[k])
    /\ log' = Append(log, [op |-> "update", path |-> pool[k].Path, entry |-> pool[k]])
    /\ UNCHANGED <<fs, privileged, proc, ncalls, rd, input, tree, built, pool, ixfile, ixres, dif, head, refs, work, cmd, zone>>

\* idx.RemoveEntry(path)
Remove(path) ==
    /\ Len(log) < MaxOps
    /\ idx' = RemoveEntry(idx, path)
    /\ log' = Append(log, [op |-> "remove", path |-> path, entry |-> <<>>])
    /\ UNCHANGED <<fs, privileged, proc, ncalls, rd, input, tree, built, pool, ixfile, ixres, dif, head, refs, work, cmd, zone>>

NextIndex ==
    \/ \E k \in DOMAIN pool : Upsert(k)
    \/ \E path \in IndexPaths : Remove(path)

SpecIndex == InitIndex /\ [][NextIndex]_vars

\* what a map keyed by path holds for path after the calls of the log
MapAfter(calls, path) ==
    LET on == {i \in DOMAIN calls : calls[i].path = path}
    IN  IF on = {} THEN NotFound
        ELSE LET last == CHOOSE i \in on : \A j \in on : j <= i
             IN  IF calls[last].op = "update"
                 THEN [found |-> TRUE, entry |-> calls[last].entry]
                 ELSE NotFound

\* C11: an Index that starts empty behaves as a map keyed by path under any
\* sequence of UpdateEntry and RemoveEntry: no two entries share a path,
\* GetEntry(p) is the entry last upserted for p unless p was removed since,
\* every call leaves the entries of the other paths as they were, and a
\* RemoveEntry of an absent path changes nothing.
C11_IndexIsPathKeyedMap ==
    /\ [](/\ \A i, j \in DOMAIN idx : idx[i].Path = idx[j].Path => i = j
          /\ \A path \in IndexPaths : GetEntry(idx, path) = MapAfter(log, path))
    /\ [][/\ \A path \in IndexPaths \ {log'[Len(log')].path} :
                 GetEntry(idx', path) = GetEntry(idx, path)
          /\ (log'[Len(log')].op = "remove"
              /\ ~GetEntry(idx, log'[Len(log')].path).found) => idx' = idx]_vars

\* a path upserted twice with different entries, another path upserted and
\* the first one removed
C11_Witness ==
    /\ Len(log) = MaxOps
    /\ \E i, j, k \in DOMAIN log :
          /\ i < j /\ j < k
          /\ log[i].op = "update" /\ log[j].op = "update" /\ log[k].op = "remove"
          /\ log[i].path = log[j].path /\ log[i].entry # log[j].entry
          /\ log[k].path # log[i].path
          /\ ~GetEntry(idx, log[k].path).found
          /\ GetEntry(idx, log[i].path).entry = log[j].entry

(***************************************************************************)
(* The index file: "DIRC", version, entry count, the entries padded to a   *)
(* multiple of 8 bytes, and the SHA-1 of all that                          *)
(***************************************************************************)
IndexSignature == <<68, 73, 82, 67>>                \* "DIRC"

IndexVersion == 2

HeaderSize == 12

EntryFixedSize == 62

\* binary.BigEndian, 32 and 16 bits
PutU32(v) ==
    <<(v \div 16777216) % 256, (v \div 65536) % 256, (v \div 256) % 256, v % 256>>

PutU16(v) == <<(v \div 256) % 256, v % 256>>

\* the four bytes read least significant first
GetU32LittleEndian(data, pos) ==
    data[pos + 1] + 256 * data[pos + 2] + 65536 * data[pos + 3]
    + 16777216 * data[pos + 4]

\* binary.BigEndian.Uint32 of the four bytes at pos; the files of the model
\* keep every field below 2^31
GetU32(data, pos) ==
    16777216 * data[pos + 1] + 65536 * data[pos + 2] + 256 * data[pos + 3]
    + data[pos + 4]

GetU16(data, pos) == 256 * data[pos + 1] + data[pos + 2]

\* the entry AddFile makes of a file: its modification time twice, its size,
\* its mode by the execute bits, the id of its content as a blob and the
\* length of its path; the other fields stay zero.  The times and the size
\* of the samples are below 2^31, so that the uint32 conversions keep them.
NewEntry(path, sec, nano, exec, content) ==
    [CTimeSec |-> sec, CTimeNano |-> nano, MTimeSec |-> sec, MTimeNano |-> nano,
     Dev |-> 0, Ino |-> 0, Mode |-> IF exec THEN ModeExecutable ELSE ModeRegular,
     UID |-> 0, GID |-> 0, Size |-> Len(content),
     Hash |-> HexToBytes(HashObject(StrBlob, content)),
     Flags |-> Len(path) % 65536, Path |-> path]

\* a padding that is 8 where none is needed
PaddingNeverZero(entryLen) == 8 - (entryLen % 8)

Padding(entryLen) == (8 - (entryLen % 8)) % 8

\* the bytes Index.Write emits for one entry
EntryBytes(e) ==
    PutU32(e.CTimeSec) \o PutU32(e.CTimeNano) \o PutU32(e.MTimeSec)
    \o PutU32(e.MTimeNano) \o PutU32(e.Dev) \o PutU32(e.Ino) \o PutU32(e.Mode)
    \o PutU32(e.UID) \o PutU32(e.GID) \o PutU32(e.Size) \o e.Hash
    \o PutU16(e.Flags) \o e.Path \o <<NUL>>
    \o ZeroBytes(Padding(EntryFixedSize + Len(e.Path) + 1))

RECURSIVE EntriesBytes(_)
EntriesBytes(entries) ==
    IF Len(entries) = 0 THEN <<>>
    ELSE EntryBytes(entries[1]) \o EntriesBytes(Tail(entries))

\* sort.Slice by Path
RECURSIVE InsertByPath(_, _)
InsertByPath(sorted, e) ==
    IF Len(sorted) = 0 THEN <<e>>
    ELSE IF LexLess(e.Path, sorted[Len(sorted)].Path)
         THEN Append(InsertByPath(SubSeq(sorted, 1, Len(sorted) - 1), e),
                     sorted[Len(sorted)])
         ELSE Append(sorted, e)

\* a Write that leaves the entries in the order they were staged
KeepStagedOrder(entries) == entries

RECURSIVE SortByPath(_)
SortByPath(entries) ==
    IF Len(entries) = 0 THEN <<>>
    ELSE InsertByPath(SortByPath(SubSeq(entries, 1, Len(entries) - 1)),
                      entries[Len(entries)])

\* the buffer Index.Write hands to os.WriteFile, for entries it has sorted
IndexBytes(sorted) ==
    LET Sum(body) == body \o Sha1Sum(body)
    IN  Sum(IndexSignature \o PutU32(IndexVersion) \o PutU32(Len(sorted))
            \o EntriesBytes(sorted))

ParseErr(msg) == [ok |-> FALSE, err |-> msg, entries |-> <<>>, ends |-> <<>>]

\* the fixed fields of the entry at pos, and the path of pathEnd bytes
EntryAt(data, pos, pathEnd) ==
    [CTimeSec |-> GetU32(data, pos), CTimeNano |-> GetU32(data, pos + 4),
     MTimeSec |-> GetU32(data, pos + 8), MTimeNano |-> GetU32(data, pos + 12),
     Dev |-> GetU32(data, pos + 16), Ino |-> GetU32(data, pos + 20),
     Mode |-> GetU32(data, pos + 24), UID |-> GetU32(data, pos + 28),
     GID |-> GetU32(data, pos + 32), Size |-> GetU32(data, pos + 36),
     Hash |-> Slice(data, pos + 40, pos + 60), Flags |-> GetU16(data, pos + 60),
     Path |-> Slice(data, pos + EntryFixedSize, pos + EntryFixedSize + pathEnd)]

\* the loop of parseIndex: left entries to go, pos the offset of the next;
\* ends keeps the offset the loop reached after each entry
RECURSIVE parseEntries(_, _, _, _, _)
parseEntries(data, pos, left, entries, ends) ==
    IF left = 0 THEN [ok |-> TRUE, err |-> "", entries |-> entries, ends |-> ends]
    ELSE IF pos + EntryFixedSize > Len(data) THEN ParseErr("truncated index entry")
    ELSE LET pathEnd == IndexByte(SliceFrom(data, pos + EntryFixedSize), NUL)
             next == pos + EntryFixedSize + pathEnd + 1
                     + Padding(EntryFixedSize + pathEnd + 1)
         IN  IF pathEnd = -1
             THEN ParseErr("invalid index entry: no null terminator")
             ELSE parseEntries(data, next, left - 1,
                               Append(entries, EntryAt(data, pos, pathEnd)),
                               Append(ends, next))

parseIndex(data) ==
    IF Len(data) < HeaderSize THEN ParseErr("index too small")
    ELSE IF Slice(data, 0, 4) # IndexSignature
         THEN ParseErr("invalid index signature")
    ELSE IF GetU32(data, 4) # IndexVersion
         THEN ParseErr("unsupported index version")
    ELSE parseEntries(data, HeaderSize, GetU32(data, 8), <<>>, <<>>)

\* ReadIndex: no file is the empty index
ReadIndex(file) ==
    IF ~file.exists THEN [ok |-> TRUE, err |-> "", entries |-> <<>>, ends |-> <<>>]
    ELSE parseIndex(file.data)

ParseResult(data, r) ==
    [state |-> IF r.ok THEN "ok" ELSE "err", err |-> r.err, entries |-> r.entries,
     ends |-> r.ends, data |-> data]

(***************************************************************************)
(* SpecIxFile: a session stages files, writes the index file, and          *)
(* parseIndex is given the file, a prefix of it, or the file with a        *)
(* damaged header.                                                         *)
(***************************************************************************)
MaxStaged == 2

SampleNano == 5

StrSrcMainGo == <<115, 114, 99, SlashCh, 109, 97, 105, 110, 46, 103, 111>>  \* "src/main.go"

StrLibXGo == <<108, 105, 98, SlashCh, 120, 46, 103, 111>>                    \* "lib/x.go"

\* entries as AddFile makes them, with paths of 1, 2, 3, 5, 8 and 11 bytes
\* and two versions of one path
FileEntryPool ==
    <<NewEntry(StrA, SampleUnix, SampleNano, FALSE, StrHi),
      NewEntry(StrA, SampleUnix + 1, 0, TRUE, <<>>),
      NewEntry(StrAB, SampleUnix, 0, FALSE, <<>>),
      NewEntry(StrAslashB, SampleUnix, SampleNano, TRUE, StrHi),
      NewEntry(StrDEF, SampleUnix + 1, SampleNano, FALSE, StrX),
      NewEntry(StrLibXGo, SampleUnix, 0, FALSE, StrX),
      NewEntry(StrSrcMainGo, SampleUnix, SampleNano, FALSE, StrHi)>>

InitIxFile ==
    /\ idx = <<>>
    /\ pool = FileEntryPool
    /\ RepoIdle
    /\ IndexIdle /\ DiffIdle
    /\ fs = EmptyFs
    /\ privileged = FALSE
    /\ rd = NoRead
    /\ tree = NewTree /\ built = NoBuilt
    /\ StoreIdle /\ SeqIdle /\ ReadIdle

\* idx.AddFile ends with idx.UpdateEntry(entry)
StageFile(k) ==
    /\ ~ixfile.exists
    /\ (Len(idx) < MaxStaged \/ \E i \in DOMAIN idx : idx[i].Path = pool[k].Path)
    /\ idx' = UpdateEntry(idx, pool[k])
    /\ UNCHANGED <<fs, privileged, proc, ncalls, rd, log, input, tree, built, pool, ixfile, ixres, dif, head, refs, work, cmd, zone>>

\* idx.Write: the entries are sorted in place and the file is rewritten
WriteIndex ==
    /\ ~ixfile.exists
    /\ \E sorted \in {SortByPath(idx)} :
          /\ idx' = sorted
          /\ ixfile' = [exists |-> TRUE, data |-> IndexBytes(sorted)]
    /\ UNCHANGED <<fs, privileged, proc, ncalls, rd, log, input, tree, built, pool, ixres, dif, head, refs, work, cmd, zone>>

\* parseIndex on the first n bytes of the file; all of them is what
\* ReadIndex does
ParsePrefix(n) ==
    /\ ixfile.exists
    /\ ixres = NoParse
    /\ \E data \in {SubSeq(ixfile.data, 1, n)} :
          ixres' = ParseResult(data, parseIndex(data))
    /\ UNCHANGED <<fs, privileged, proc, ncalls, rd, log, input, idx, tree, built, pool, ixfile, dif, head, refs, work, cmd, zone>>

\* parseIndex on the file with one header byte changed: i is the offset
ParseDamaged(i, b) ==
    /\ ixfile.exists
    /\ ixres = NoParse
    /\ ixfile.data[i + 1] # b
    /\ \E data \in {[ixfile.data EXCEPT ![i + 1] = b]} :
          ixres' = ParseResult(data, parseIndex(data))
    /\ UNCHANGED <<fs, privileged, proc, ncalls, rd, log, input, idx, tree, built, pool, ixfile, dif, head, refs, work, cmd, zone>>

NextIxFile ==
    \/ \E k \in DOMAIN pool : StageFile(k)
    \/ WriteIndex
    \/ \E n \in 0..Len(ixfile.data) : ParsePrefix(n)
    \/ \E i \in 0..7, b \in {0, 1, 3, 68, 100} : ParseDamaged(i, b)

SpecIxFile == InitIxFile /\ [][NextIxFile]_vars

\* C12: parsing a file that Index.Write produced and writing the result
\* again gives the same bytes: header, entries, padding and checksum.
C12_ParseWriteRoundTrip ==
    (ixfile.exists /\ ixres.state # "none" /\ ixres.data = ixfile.data)
        => /\ ixres.state = "ok"
           /\ IndexBytes(SortByPath(ixres.entries)) = ixfile.data

C12_Witness ==
    /\ ixfile.exists /\ ixres.state = "ok" /\ ixres.data = ixfile.data
    /\ Len(ixres.entries) = 2
    /\ ixres.entries[2].Path = StrSrcMainGo

MaxPathLen == 16

\* the bytes an entry with a path of n bytes takes in the file
EntrySize(n) == EntryFixedSize + n + 1 + Padding(EntryFixedSize + n + 1)

\* C13: an entry whose path has L bytes occupies 62 + L + 1 + pad bytes with
\* 0 <= pad <= 7 and the total a multiple of 8, in what Index.Write emits
\* and in what parseIndex advances by; "src/main.go" (11 bytes) is 74 bytes
\* before the padding and 80 after.
C13_EntryPaddedToEight ==
    /\ \A n \in 0..MaxPathLen :
          /\ Padding(EntryFixedSize + n + 1) \in 0..7
          /\ EntrySize(n) % 8 = 0
    /\ \A i \in DOMAIN idx :
          /\ Len(EntryBytes(idx[i])) = EntrySize(Len(idx[i].Path))
          /\ idx[i].Path = StrSrcMainGo =>
                /\ EntryFixedSize + Len(idx[i].Path) + 1 = 74
                /\ Len(EntryBytes(idx[i])) = 80
    /\ ixres.state = "ok" =>
          \A i \in DOMAIN ixres.entries :
              ixres.ends[i] - (IF i = 1 THEN HeaderSize ELSE ixres.ends[i - 1])
                  = EntrySize(Len(ixres.entries[i].Path))

\* the file of "a" and "src/main.go" read back: 64 and 80 bytes
C13_Witness ==
    /\ ixfile.exists /\ ixres.state = "ok" /\ ixres.data = ixfile.data
    /\ Len(idx) = 2 /\ idx[1].Path = StrA /\ idx[2].Path = StrSrcMainGo
    /\ ixres.ends = <<76, 156>>
    /\ Len(ixfile.data) = 176

\* the offset at which the entries of the file end and the checksum begins
EntriesEnd(data) == Len(data) - HashSize

\* C14: parseIndex returns an error and no Index when the signature is not
\* "DIRC", when the version is not 2, or when the data end before all the
\* declared entries are completely present: fixed fields, path with its NUL
\* and padding.  So every prefix of a written file that cuts into the entries
\* is rejected.
C14_RejectsDamagedAndTruncated ==
    (ixfile.exists /\ ixres.state # "none") =>
        /\ Slice(ixres.data, 0, Min(4, Len(ixres.data))) # IndexSignature
              => ixres.state = "err"
        /\ (Len(ixres.data) >= 8 /\ GetU32(ixres.data, 4) # IndexVersion)
              => ixres.state = "err"
        /\ Len(ixres.data) < EntriesEnd(ixfile.data) => ixres.state = "err"
        /\ ixres.state = "err" => ixres.entries = <<>>

(***************************************************************************)
(* diff: the line diff by longest common subsequence                       *)
(***************************************************************************)
ChangeEqual == 0

ChangeInsert == 1

ChangeDelete == 2

max(a, b) == IF a > b THEN a ELSE b

\* row i of the table from row i-1: row holds lcs[i][0 .. Len(row)-1]
RECURSIVE LcsRow(_, _, _, _)
LcsRow(prev, line, newLines, row) ==
    IF Len(row) = Len(newLines) + 1 THEN row
    ELSE LET j == Len(row)
         IN  LcsRow(prev, line, newLines,
                    Append(row, IF line = newLines[j] THEN prev[j] + 1
                                ELSE max(prev[j + 1], row[j])))

\* the table lcs[0..m][0..n], kept as rows 1..m+1 of cells 1..n+1
RECURSIVE LcsRows(_, _, _)
LcsRows(oldLines, newLines, rows) ==
    IF Len(rows) = Len(oldLines) + 1 THEN rows
    ELSE LcsRows(oldLines, newLines,
                 Append(rows, LcsRow(rows[Len(rows)], oldLines[Len(rows)],
                                     newLines, <<0>>)))

LcsTable(oldLines, newLines) ==
    LcsRows(oldLines, newLines, <<[j \in 1..(Len(newLines) + 1) |-> 0]>>)

\* a tie between the two neighbours goes to the deletion
TakeInsertStrict(lcs, i, j) == j > 0 /\ (i = 0 \/ lcs[i + 1][j] > lcs[i][j + 1])

\* an insertion wherever the new text has a line left
TakeInsertAlways(lcs, i, j) == j > 0

\* the second branch of the backtracking: lcs[i][j-1] >= lcs[i-1][j]
TakeInsert(lcs, i, j) == j > 0 /\ (i = 0 \/ lcs[i + 1][j] >= lcs[i][j + 1])

\* the backtracking from (i, j); result is in reverse document order
RECURSIVE Backtrack(_, _, _, _, _, _)
Backtrack(oldLines, newLines, lcs, i, j, result) ==
    IF ~(i > 0 \/ j > 0) THEN result
    ELSE IF i > 0 /\ j > 0 /\ oldLines[i] = newLines[j]
    THEN Backtrack(oldLines, newLines, lcs, i - 1, j - 1,
                   Append(result, [Type |-> ChangeEqual, OldLine |-> i,
                                   NewLine |-> j, Text |-> oldLines[i]]))
    ELSE IF TakeInsert(lcs, i, j)
    THEN Backtrack(oldLines, newLines, lcs, i, j - 1,
                   Append(result, [Type |-> ChangeInsert, OldLine |-> 0,
                                   NewLine |-> j, Text |-> newLines[j]]))
    ELSE Backtrack(oldLines, newLines, lcs, i - 1, j,
                   Append(result, [Type |-> ChangeDelete, OldLine |-> i,
                                   NewLine |-> 0, Text |-> oldLines[i]]))

\* a result left in the order the backtracking found it
NotReversed(result) == result

\* the swap loop that puts the result in document order
Reversed(result) == [k \in 1..Len(result) |-> result[Len(result) + 1 - k]]

diffLines(oldLines, newLines) ==
    Reversed(Backtrack(oldLines, newLines, LcsTable(oldLines, newLines),
                       Len(oldLines), Len(newLines), <<>>))

Diff(oldText, newText) == diffLines(Split(oldText, LF), Split(newText, LF))

(***************************************************************************)
(* diff: hunks and their rendering                                         *)
(***************************************************************************)
Context == 3

\* a new hunk only when one more unchanged line separates the changes
NewHunkLate(lastChangeIdx, i, context) ==
    lastChangeIdx = -1 \/ i - lastChangeIdx > context * 2 + 1

NewHunk(lastChangeIdx, i, context) ==
    lastChangeIdx = -1 \/ i - lastChangeIdx > context * 2

\* the loop of groupIntoHunks at index i, and what follows it
RECURSIVE groupLoop(_, _, _, _, _, _)
groupLoop(changes, context, i, hunks, currentHunk, lastChangeIdx) ==
    IF i = Len(changes)
    THEN IF lastChangeIdx # -1
         THEN Append(hunks,
                     currentHunk
                     \o Slice(changes, lastChangeIdx + 1,
                              Min(lastChangeIdx + context + 1, Len(changes))))
         ELSE hunks
    ELSE IF changes[i + 1].Type = ChangeEqual
    THEN groupLoop(changes, context, i + 1, hunks, currentHunk, lastChangeIdx)
    ELSE IF NewHunk(lastChangeIdx, i, context)
    THEN groupLoop(changes, context, i + 1,
                   IF Len(currentHunk) > 0 THEN Append(hunks, currentHunk)
                   ELSE hunks,
                   Append(Slice(changes, max(0, i - context), i), changes[i + 1]),
                   i)
    ELSE groupLoop(changes, context, i + 1, hunks,
                   Append(currentHunk \o Slice(changes, lastChangeIdx + 1, i),
                          changes[i + 1]),
                   i)

groupIntoHunks(changes, context) ==
    IF Len(changes) = 0 THEN <<>>
    ELSE groupLoop(changes, context, 0, <<>>, <<>>, -1)

\* the first positive OldLine of the hunk, 0 when it has none
FirstOldLine(hunk) ==
    IF \E k \in DOMAIN hunk : hunk[k].OldLine > 0
    THEN hunk[CHOOSE k \in DOMAIN hunk :
                 hunk[k].OldLine > 0
                 /\ \A l \in 1..(k - 1) : ~(hunk[l].OldLine > 0)].OldLine
    ELSE 0

FirstNewLine(hunk) ==
    IF \E k \in DOMAIN hunk : hunk[k].NewLine > 0
    THEN hunk[CHOOSE k \in DOMAIN hunk :
                 hunk[k].NewLine > 0
                 /\ \A l \in 1..(k - 1) : ~(hunk[l].NewLine > 0)].NewLine
    ELSE 0

CountOf(hunk, types) == Cardinality({k \in DOMAIN hunk : hunk[k].Type \in types})

\* a header whose ranges both start at line 1
hunkHeaderFromOne(hunk) ==
    [oldStart |-> 1, oldCount |-> CountOf(hunk, {ChangeEqual, ChangeDelete}),
     newStart |-> 1, newCount |-> CountOf(hunk, {ChangeEqual, ChangeInsert})]

hunkHeader(hunk) ==
    IF Len(hunk) = 0
    THEN [oldStart |-> 1, oldCount |-> 0, newStart |-> 1, newCount |-> 0]
    ELSE [oldStart |-> IF FirstOldLine(hunk) = 0 THEN 1 ELSE FirstOldLine(hunk),
          oldCount |-> CountOf(hunk, {ChangeEqual, ChangeDelete}),
          newStart |-> IF FirstNewLine(hunk) = 0 THEN 1 ELSE FirstNewLine(hunk),
          newCount |-> CountOf(hunk, {ChangeEqual, ChangeInsert})]

StrAtAt == <<64, 64>>                               \* "@@"

Green == <<27, 91, 51, 50, 109>>                    \* ESC [32m

Red == <<27, 91, 51, 49, 109>>                      \* ESC [31m

ResetColour == <<27, 91, 48, 109>>                  \* ESC [0m

\* "@@ -%d,%d +%d,%d @@\n"
HeaderLine(h) ==
    StrAtAt \o <<SP, MinusCh>> \o ItoA(h.oldStart) \o <<44>> \o ItoA(h.oldCount)
    \o <<SP, PlusCh>> \o ItoA(h.newStart) \o <<44>> \o ItoA(h.newCount)
    \o <<SP>> \o StrAtAt \o <<LF>>

ChangeLine(change) ==
    IF change.Type = ChangeEqual THEN <<SP>> \o change.Text \o <<LF>>
    ELSE IF change.Type = ChangeInsert
    THEN Green \o <<PlusCh>> \o change.Text \o ResetColour \o <<LF>>
    ELSE Red \o <<MinusCh>> \o change.Text \o ResetColour \o <<LF>>

RECURSIVE ChangeLines(_)
ChangeLines(hunk) ==
    IF Len(hunk) = 0 THEN <<>>
    ELSE ChangeLine(hunk[1]) \o ChangeLines(Tail(hunk))

RECURSIVE HunksText(_)
HunksText(hunks) ==
    IF Len(hunks) = 0 THEN <<>>
    ELSE HeaderLine(hunkHeader(hunks[1])) \o ChangeLines(hunks[1])
         \o HunksText(Tail(hunks))

\* diff.Format
Format(oldName, newName, changes) ==
    <<MinusCh, MinusCh, MinusCh, SP, 97, SlashCh>> \o oldName \o <<LF>>
    \o <<PlusCh, PlusCh, PlusCh, SP, 98, SlashCh>> \o newName \o <<LF>>
    \o HunksText(groupIntoHunks(changes, Context))

(***************************************************************************)
(* SpecDiff: a session diffs two texts (or two slices of lines) and        *)
(* renders the result, as the diff command does.                           *)
(***************************************************************************)
MaxLines == 3

MaxGap == 7

RECURSIVE SeqsUpTo(_, _)
SeqsUpTo(S, n) ==
    IF n = 0 THEN {<<>>}
    ELSE LET shorter == SeqsUpTo(S, n - 1)
         IN  shorter \cup {Append(s, x) : s \in shorter, x \in S}

\* n unchanged lines, each one different: the letters after the from-th
EqualRun(from, n) == [k \in 1..n |-> <<64 + from + k>>]

\* two changes of the given kinds with g1 unchanged lines between them, g0
\* before and g2 after
GapLines(side, g0, kind1, g1, kind2, g2) ==
    LET Changed(kind, oldLine, newLine) ==
            IF side = "old" THEN (IF kind = "ins" THEN <<>> ELSE <<oldLine>>)
            ELSE (IF kind = "del" THEN <<>> ELSE <<newLine>>)
    IN  EqualRun(0, g0) \o Changed(kind1, <<120>>, <<112>>)
        \o EqualRun(g0, g1) \o Changed(kind2, <<121>>, <<113>>)
        \o EqualRun(g0 + g1, g2)

Kinds == {"del", "ins", "rep"}

LinesInput(a, b) ==
    [NoDiff EXCEPT !.stage = "lines", !.old = a, !.new = b]

TextInput(s, t) ==
    [NoDiff EXCEPT !.stage = "text", !.oldText = s, !.newText = t]

StrABC == <<97, LF, 98, LF, 99>>                    \* "a\nb\nc"

StrAXC == <<97, LF, 120, LF, 99>>                   \* "a\nx\nc"

DiffInputs ==
    {LinesInput(a, b) : a, b \in SeqsUpTo({StrA, StrB}, MaxLines)}
    \cup {TextInput(StrABC, StrAXC)}
    \cup {TextInput(Join(GapLines("old", g0, k1, g1, k2, g2), LF),
                    Join(GapLines("new", g0, k1, g1, k2, g2), LF)) :
            g0 \in {0, 1, 4}, k1 \in Kinds, g1 \in 0..MaxGap, k2 \in Kinds,
            g2 \in {0, 2, 4}}

InitDiff ==
    /\ dif \in DiffInputs
    /\ ixfile = NoFile /\ ixres = NoParse
    /\ pool = <<>>
    /\ RepoIdle
    /\ fs = EmptyFs
    /\ privileged = FALSE
    /\ rd = NoRead
    /\ StoreIdle /\ SeqIdle /\ ReadIdle /\ TreeIdle

\* diffLines on two slices of lines
DiffLinesStep ==
    /\ dif.stage = "lines"
    /\ dif' = [dif EXCEPT !.stage = "diffed",
                          !.changes = diffLines(dif.old, dif.new)]
    /\ UNCHANGED <<fs, privileged, proc, ncalls, rd, log, input, idx, tree, built, pool, ixfile, ixres, head, refs, work, cmd, zone>>

\* diff.Diff on two texts
DiffTextStep ==
    /\ dif.stage = "text"
    /\ dif' = [dif EXCEPT !.stage = "diffed",
                          !.old = Split(dif.oldText, LF),
                          !.new = Split(dif.newText, LF),
                          !.changes = Diff(dif.oldText, dif.newText)]
    /\ UNCHANGED <<fs, privileged, proc, ncalls, rd, log, input, idx, tree, built, pool, ixfile, ixres, head, refs, work, cmd, zone>>

\* diff.Format of the changes; hunks keeps what its groupIntoHunks returned
FormatStep ==
    /\ dif.stage = "diffed"
    /\ dif' = [dif EXCEPT !.stage = "formatted",
                          !.hunks = groupIntoHunks(dif.changes, Context),
                          !.out = Format(StrA, StrA, dif.changes)]
    /\ UNCHANGED <<fs, privileged, proc, ncalls, rd, log, input, idx, tree, built, pool, ixfile, ixres, head, refs, work, cmd, zone>>

NextDiff == DiffLinesStep \/ DiffTextStep \/ FormatStep

SpecDiff == InitDiff /\ [][NextDiff]_vars

Diffed == dif.stage \in {"diffed", "formatted"}

\* the operations of the script that have a line on the old side, on the new
OldSide(changes) ==
    LET Has(c) == c.Type \in {ChangeEqual, ChangeDelete} IN SelectSeq(changes, Has)

NewSide(changes) ==
    LET Has(c) == c.Type \in {ChangeEqual, ChangeInsert} IN SelectSeq(changes, Has)

Texts(changes) == [k \in DOMAIN changes |-> changes[k].Text]

\* the script applied to the lines a: Equal copies a line, Delete skips one,
\* Insert emits its own text
RECURSIVE ApplyScript(_, _)
ApplyScript(changes, a) ==
    IF Len(changes) = 0 THEN a
    ELSE IF changes[1].Type = ChangeInsert
    THEN <<changes[1].Text>> \o ApplyScript(Tail(changes), a)
    ELSE IF Len(a) = 0 THEN <<"short">>
    ELSE IF changes[1].Type = ChangeEqual
    THEN <<a[1]>> \o ApplyScript(Tail(changes), Tail(a))
    ELSE ApplyScript(Tail(changes), Tail(a))

\* C15: the edit script applied to A in order gives B: the texts of its
\* Equal and Delete operations are the lines of A in order, those of its
\* Equal and Insert operations the lines of B, and the OldLine and NewLine
\* numbers count up through the script.
C15_ScriptReconstructs ==
    Diffed =>
        /\ Texts(OldSide(dif.changes)) = dif.old
        /\ Texts(NewSide(dif.changes)) = dif.new
        /\ ApplyScript(dif.changes, dif.old) = dif.new
        /\ \A k \in DOMAIN OldSide(dif.changes) : OldSide(dif.changes)[k].OldLine = k
        /\ \A k \in DOMAIN NewSide(dif.changes) : NewSide(dif.changes)[k].NewLine = k

\* two deletions and an insertion among unchanged lines
C15_Witness ==
    /\ Diffed
    /\ dif.old = <<StrA, StrB, StrA>> /\ dif.new = <<StrB, StrB>>
    /\ Len(dif.changes) = 4

\* the length of a longest common subsequence, by trying both ways
RECURSIVE LcsLength(_, _)
LcsLength(a, b) ==
    IF Len(a) = 0 \/ Len(b) = 0 THEN 0
    ELSE IF a[1] = b[1] THEN 1 + LcsLength(Tail(a), Tail(b))
    ELSE max(LcsLength(Tail(a), b), LcsLength(a, Tail(b)))

\* C16: the script is minimal: its Equal operations, each on two equal
\* lines, are as many as a longest common subsequence of A and B has, so the
\* diff of a text with itself has Equal operations only.
C16_ScriptMinimal ==
    Diffed =>
        /\ \A k \in DOMAIN dif.changes :
              dif.changes[k].Type = ChangeEqual =>
                  /\ dif.old[dif.changes[k].OldLine] = dif.changes[k].Text
                  /\ dif.new[dif.changes[k].NewLine] = dif.changes[k].Text
        /\ Len(dif.old) + Len(dif.new) <= 2 * (MaxLines + 1) =>
              CountOf(dif.changes, {ChangeEqual}) = LcsLength(dif.old, dif.new)
        /\ dif.old = dif.new =>
              CountOf(dif.changes, {ChangeEqual}) = Len(dif.changes)

\* a b a against b a b: two lines in common, whichever way
C16_Witness ==
    /\ Diffed
    /\ dif.old = <<StrA, StrB, StrA>> /\ dif.new = <<StrB, StrA, StrB>>
    /\ CountOf(dif.changes, {ChangeEqual}) = 2

Formatted == dif.stage = "formatted"

\* the place of an operation in the script: no two operations of a script
\* are alike, as each carries its line numbers
PosIn(changes, c) == CHOOSE i \in DOMAIN changes : changes[i] = c

Changed(changes) == {i \in DOMAIN changes : changes[i].Type # ChangeEqual}

\* the unchanged operations right before place i, and right after it
RunBefore(changes, i) ==
    Cardinality({k \in 1..(i - 1) :
                    \A l \in k..(i - 1) : changes[l].Type = ChangeEqual})

RunAfter(changes, i) ==
    Cardinality({k \in (i + 1)..Len(changes) :
                    \A l \in (i + 1)..k : changes[l].Type = ChangeEqual})

\* the places a hunk covers: from, to, and its first and last changed place
Extent(changes, hunk) ==
    LET from == PosIn(changes, hunk[1])
        to == PosIn(changes, hunk[Len(hunk)])
        inside == {i \in Changed(changes) : from <= i /\ i <= to}
    IN  [from |-> from, to |-> to,
         first |-> CHOOSE i \in inside : \A k \in inside : i <= k,
         last |-> CHOOSE i \in inside : \A k \in inside : k <= i]

\* C17: with context 3 every hunk, not only the last, holds the unchanged
\* lines next to its first changed line and next to its last changed line,
\* up to 3 on each side, fewer only where the script has fewer there.
C17_EveryHunkHasContext ==
    Formatted =>
        \A h \in DOMAIN dif.hunks :
            LET e == Extent(dif.changes, dif.hunks[h])
            IN  /\ e.from <= e.first - Min(Context, RunBefore(dif.changes, e.first))
                /\ e.to >= e.last + Min(Context, RunAfter(dif.changes, e.last))

\* the hunk that holds the operation at place i
HunkOf(changes, hunks, i) ==
    CHOOSE h \in DOMAIN hunks : \E k \in DOMAIN hunks[h] : hunks[h][k] = changes[i]

\* C18: two changed regions next to each other are in one hunk exactly when
\* fewer than 6 unchanged lines lie between them and in two hunks when 6 or
\* more do; the hunks are contiguous slices of the script that do not
\* overlap and follow document order, and every Insert and Delete is in
\* exactly one hunk.
C18_HunksSplitAtSix ==
    Formatted =>
        /\ \A h \in DOMAIN dif.hunks :
              /\ Len(dif.hunks[h]) > 0
              /\ \A k \in 1..(Len(dif.hunks[h]) - 1) :
                    PosIn(dif.changes, dif.hunks[h][k + 1])
                        = PosIn(dif.changes, dif.hunks[h][k]) + 1
              /\ \A k \in DOMAIN dif.hunks[h] :
                    \E i \in DOMAIN dif.changes : dif.changes[i] = dif.hunks[h][k]
        /\ \A h \in 1..(Len(dif.hunks) - 1) :
              Extent(dif.changes, dif.hunks[h]).to
                  < Extent(dif.changes, dif.hunks[h + 1]).from
        /\ \A i \in Changed(dif.changes) :
              Cardinality({hk \in {<<h, k>> : h \in DOMAIN dif.hunks,
                                              k \in 1..Len(dif.changes)} :
                              /\ hk[2] <= Len(dif.hunks[hk[1]])
                              /\ dif.hunks[hk[1]][hk[2]] = dif.changes[i]}) = 1
        /\ \A p, q \in Changed(dif.changes) :
              (/\ p + 1 < q
               /\ \A i \in (p + 1)..(q - 1) : dif.changes[i].Type = ChangeEqual)
                  => ((HunkOf(dif.changes, dif.hunks, p)
                          = HunkOf(dif.changes, dif.hunks, q))
                      <=> (q - p - 1 < 2 * Context))

\* two changes with exactly 6 unchanged lines between them, in two hunks
C18_Witness ==
    /\ Formatted
    /\ Len(dif.hunks) = 2
    /\ \E p, q \in Changed(dif.changes) :
          /\ q - p - 1 = 6
          /\ \A i \in (p + 1)..(q - 1) : dif.changes[i].Type = ChangeEqual

\* the range headers of a rendered diff, in order
Headers(out) ==
    LET IsHeader(line) == Len(line) >= 2 /\ SubSeq(line, 1, 2) = StrAtAt
    IN  SelectSeq(Split(out, LF), IsHeader)

\* the header with the given starts and counts
RangeHeader(s, c, t, d) ==
    StrAtAt \o <<SP, MinusCh>> \o ItoA(s) \o <<44>> \o ItoA(c) \o <<SP, PlusCh>>
    \o ItoA(t) \o <<44>> \o ItoA(d) \o <<SP>> \o StrAtAt

\* the start the operations of one side of a hunk allow, given their line
\* numbers: that of the first, or any up to n + 1 when the side is empty
StartsAllowed(numbers, n) ==
    IF Len(numbers) > 0 THEN {numbers[1]} ELSE 0..(n + 1)

\* C19: the rendered header "@@ -s,c +t,d @@" of every hunk has c the number
\* of its Equal and Delete operations, d the number of its Equal and Insert
\* operations, s the old line number of its first Equal or Delete and t the
\* new line number of its first Equal or Insert; "a\nb\nc" against
\* "a\nx\nc" gives "@@ -1,3 +1,3 @@".
C19_HeaderCountsAndStarts ==
    Formatted =>
        /\ Len(Headers(dif.out)) = Len(dif.hunks)
        /\ \A h \in DOMAIN dif.hunks :
              LET oldSide == OldSide(dif.hunks[h])
                  newSide == NewSide(dif.hunks[h])
              IN  \E s \in StartsAllowed([k \in DOMAIN oldSide |-> oldSide[k].OldLine],
                                          Len(dif.old)),
                     t \in StartsAllowed([k \in DOMAIN newSide |-> newSide[k].NewLine],
                                          Len(dif.new)) :
                      Headers(dif.out)[h]
                          = RangeHeader(s, Len(oldSide), t, Len(newSide))
        /\ (dif.oldText = StrABC /\ dif.newText = StrAXC) =>
              Headers(dif.out)
                  = <<<<64, 64, 32, 45, 49, 44, 51, 32, 43, 49, 44, 51, 32, 64, 64>>>>

\* the example rendered: Equal a, Delete b, Insert x, Equal c in one hunk
C19_Witness ==
    /\ Formatted
    /\ dif.oldText = StrABC /\ dif.newText = StrAXC
    /\ Len(dif.hunks) = 1 /\ Len(dif.hunks[1]) = 4
    /\ dif.changes[2].Type = ChangeDelete /\ dif.changes[3].Type = ChangeInsert
    /\ Len(Headers(dif.out)) = 1

(***************************************************************************)
(* SpecAdd: two add commands run on one repository.  Each is runAdd with   *)
(* one file argument: ReadIndex, addFile (WriteObject of the blob, then    *)
(* Index.AddFile), Index.Write, whose os.WriteFile is an open with O_TRUNC *)
(* followed by the writes.  A command in progress is a record              *)
(*   pc    "start" | "stage" | "open" | "write" | "done" | "failed",       *)
(*   file  the file it adds, entries its Index.Entries,                    *)
(*   buf   the bytes Index.Write built, off the bytes written so far,      *)
(*   err   the error runAdd returned.                                      *)
(***************************************************************************)
AddIdle ==
    [pc |-> "start", file |-> 0, entries |-> <<>>, buf |-> <<>>, off |-> 0,
     err |-> ""]

\* the files of the work tree
WorkFiles ==
    <<[path |-> StrA, content |-> StrHi, exec |-> FALSE],
      [path |-> StrSrcMainGo, content |-> StrX, exec |-> FALSE],
      [path |-> StrAB, content |-> <<>>, exec |-> TRUE]>>

EntryOf(file) == NewEntry(file.path, SampleUnix, SampleNano, file.exec, file.content)

\* the repository before the two commands: fresh, or after an add of lib/x.go
InitAdd ==
    /\ \/ /\ ixfile = NoFile
          /\ fs = EmptyFs
       \/ /\ ixfile = [exists |-> TRUE,
                       data |-> IndexBytes(<<NewEntry(StrLibXGo, SampleUnix, 0, FALSE, StrX)>>)]
          /\ fs = WriteObject(EmptyFs, NewBlob(StrX), FALSE).fs
    /\ proc = [p \in Procs |-> AddIdle]
    /\ ncalls = 0
    /\ pool = WorkFiles
    /\ RepoIdle
    /\ log = <<>>
    /\ ixres = NoParse
    /\ privileged = FALSE
    /\ rd = NoRead
    /\ DiffIdle /\ ReadIdle /\ TreeIdle

\* runAdd up to index.ReadIndex, for the file pool[k]
AddRead(p, k) ==
    /\ proc[p].pc = "start"
    /\ \E r \in {ReadIndex(ixfile)} :
          proc' = [proc EXCEPT ![p] =
                      IF r.ok
                      THEN [@ EXCEPT !.pc = "stage", !.file = k, !.entries = r.entries]
                      ELSE [@ EXCEPT !.pc = "failed", !.file = k,
                                     !.err = "failed to read index"]]
    /\ UNCHANGED <<fs, privileged, ncalls, rd, log, input, idx, tree, built, pool, ixfile, ixres, dif, head, refs, work, cmd, zone>>

\* addFile: the blob is written to the object store and the entry upserted
AddStage(p) ==
    /\ proc[p].pc = "stage"
    /\ \E w \in {WriteObject(fs, NewBlob(pool[proc[p].file].content), privileged)} :
          /\ fs' = w.fs
          /\ proc' = [proc EXCEPT ![p] =
                         IF w.pr.ret.ok
                         THEN [@ EXCEPT !.pc = "open",
                                        !.entries = UpdateEntry(@, EntryOf(pool[proc[p].file]))]
                         ELSE [@ EXCEPT !.pc = "failed", !.err = "failed to write blob"]]
    /\ UNCHANGED <<privileged, ncalls, rd, log, input, idx, tree, built, pool, ixfile, ixres, dif, head, refs, work, cmd, zone>>

\* Index.Write up to the open of os.WriteFile: the entries are sorted, the
\* buffer is built, the file is created or truncated
AddOpen(p) ==
    /\ proc[p].pc = "open"
    /\ \E sorted \in {SortByPath(proc[p].entries)} :
          proc' = [proc EXCEPT ![p] =
                      [@ EXCEPT !.pc = "write", !.entries = sorted,
                                !.buf = IndexBytes(sorted), !.off = 0]]
    /\ ixfile' = [exists |-> TRUE, data |-> <<>>]
    /\ UNCHANGED <<fs, privileged, ncalls, rd, log, input, idx, tree, built, pool, ixres, dif, head, refs, work, cmd, zone>>

\* one write of os.WriteFile: the kernel takes the n bytes at the
\* descriptor's offset; after the last one the command returns and log
\* notes it
AddWrite(p, n) ==
    /\ proc[p].pc = "write"
    /\ n > 0 /\ proc[p].off + n <= Len(proc[p].buf)
    /\ ixfile' = [ixfile EXCEPT !.data =
                     WriteAt(@, proc[p].off,
                             SubSeq(proc[p].buf, proc[p].off + 1, proc[p].off + n))]
    /\ proc' = [proc EXCEPT ![p] =
                   [@ EXCEPT !.off = @ + n,
                             !.pc = IF proc[p].off + n = Len(proc[p].buf)
                                    THEN "done" ELSE "write"]]
    /\ log' = IF proc[p].off + n = Len(proc[p].buf) THEN Append(log, p) ELSE log
    /\ UNCHANGED <<fs, privileged, ncalls, rd, input, idx, tree, built, pool, ixres, dif, head, refs, work, cmd, zone>>

\* the buffer goes in one write, or its first half and then the rest
NextAdd ==
    \/ \E p \in Procs, k \in DOMAIN pool : AddRead(p, k)
    \/ \E p \in Procs : AddStage(p)
    \/ \E p \in Procs : AddOpen(p)
    \/ \E p \in Procs :
          \E n \in {Len(proc[p].buf) - proc[p].off}
                   \cup (IF proc[p].off = 0 THEN {Len(proc[p].buf) \div 2} ELSE {}) :
              AddWrite(p, n)

SpecAdd == InitAdd /\ [][NextAdd]_vars

\* C20: when two add commands interleave, none returns an error, and once
\* both have returned the index file is exactly the buffer of the command
\* whose rewrite ended last: its snapshot with its own upsert, never a
\* mixture of the two buffers.
C20_LastRewriteWins ==
    /\ \A p \in Procs : proc[p].pc # "failed"
    /\ (\A p \in Procs : proc[p].pc = "done") =>
          ixfile.data = proc[log[Len(log)]].buf

(***************************************************************************)
(* SpecZone: a commit is made in a zone some whole minutes from UTC, its   *)
(* Content() is taken and ParseCommit reads it back.                       *)
(***************************************************************************)
\* the UTC offsets from -12:00 to +14:00, in seconds
ZoneOffsets == {60 * m : m \in (0 - 720)..840}

InitZone ==
    /\ pool = <<Hash(TreeAB)>>
    /\ zone \in {[NoZone EXCEPT !.stage = "made", !.offset = o] : o \in ZoneOffsets}
    /\ head = [exists |-> FALSE, data |-> <<>>]
    /\ refs = <<>> /\ work = <<>> /\ cmd = NoCmd
    /\ IndexIdle /\ DiffIdle
    /\ fs = EmptyFs
    /\ privileged = FALSE
    /\ rd = NoRead
    /\ StoreIdle /\ SeqIdle /\ ReadIdle /\ TreeIdle

\* Commit.Content of a root commit made at that offset
RenderZone ==
    /\ zone.stage = "made"
    /\ zone' = [zone EXCEPT
                   !.stage = "rendered",
                   !.content = CommitContent(NewCommit(pool[1], <<>>, AuthorId, MsgM,
                                                       TimeOf(SampleUnix, zone.offset)))]
    /\ UNCHANGED <<fs, privileged, proc, ncalls, rd, log, input, idx, tree, built, pool, ixfile, ixres, dif, head, refs, work, cmd>>

\* ParseCommit of those bytes; parsed keeps the offset of the author time
ParseZone ==
    /\ zone.stage = "rendered"
    /\ zone' = [zone EXCEPT !.stage = "parsed",
                            !.parsed = ParseCommit(zone.content).obj.AuthorTime.offset]
    /\ UNCHANGED <<fs, privileged, proc, ncalls, rd, log, input, idx, tree, built, pool, ixfile, ixres, dif, head, refs, work, cmd>>

NextZone == RenderZone \/ ParseZone

SpecZone == InitZone /\ [][NextZone]_vars

\* an offset as sign, two digits of hours and two digits of minutes
SignedHHMM(offset) ==
    (IF offset < 0 THEN <<MinusCh>> ELSE <<PlusCh>>)
    \o FmtInt(Abs(offset) \div 3600, 2, FALSE)
    \o FmtInt((Abs(offset) % 3600) \div 60, 2, FALSE)

\* the last field of line n of the content
ZoneField(content, n) ==
    LET fields == Split(Split(content, LF)[n], SP) IN fields[Len(fields)]

\* C23: for every offset of whole minutes from -12:00 to +14:00, negative
\* ones with minutes included, Content() ends the author and committer lines
\* with the zone as sign, two-digit hours and two-digit minutes, and
\* parseAuthorLine recovers the offset from it.
C23_ZoneRoundTrip ==
    /\ zone.stage \in {"rendered", "parsed"} =>
          /\ ZoneField(zone.content, 2) = SignedHHMM(zone.offset)
          /\ ZoneField(zone.content, 3) = SignedHHMM(zone.offset)
    /\ zone.stage = "parsed" => zone.parsed = zone.offset

\* the table position (i, j) the backtracking stood at when it emitted the
\* k-th operation: the lines of each side consumed up to and with it
StoodAt(changes, k) ==
    [i |-> Len(OldSide(SubSeq(changes, 1, k))), j |-> Len(NewSide(SubSeq(changes, 1, k)))]

\* lcs[i][j], computed on the prefixes
LcsAt(a, b, i, j) == LcsLength(SubSeq(a, 1, i), SubSeq(b, 1, j))

\* C24: where the backtracking stands at (i, j) with i, j > 0 on two
\* different lines and lcs[i][j-1] = lcs[i-1][j], it emits the Insert of new
\* line j, not the Delete of old line i; so a replaced line shows in
\* document order as Delete(old) then Insert(new), never the other way
\* round, and Diff("a\nb\nc", "a\nx\nc") is Equal a, Delete b, Insert x,
\* Equal c.
C24_TieGoesToInsert ==
    Diffed =>
        /\ Len(dif.old) + Len(dif.new) <= 2 * (MaxLines + 1) =>
              \A k \in DOMAIN dif.changes :
                  LET at == StoodAt(dif.changes, k)
                  IN  (/\ at.i > 0 /\ at.j > 0
                       /\ dif.old[at.i] # dif.new[at.j]
                       /\ LcsAt(dif.old, dif.new, at.i, at.j - 1)
                             = LcsAt(dif.old, dif.new, at.i - 1, at.j))
                          => /\ dif.changes[k].Type = ChangeInsert
                             /\ dif.changes[k].NewLine = at.j
        /\ \A k \in 1..(Len(dif.changes) - 1) :
              ~(dif.changes[k].Type = ChangeInsert
                /\ dif.changes[k + 1].Type = ChangeDelete)
        /\ (dif.oldText = StrABC /\ dif.newText = StrAXC) =>
              dif.changes
                  = <<[Type |-> ChangeEqual, OldLine |-> 1, NewLine |-> 1, Text |-> StrA],
                      [Type |-> ChangeDelete, OldLine |-> 2, NewLine |-> 0, Text |-> StrB],
                      [Type |-> ChangeInsert, OldLine |-> 0, NewLine |-> 2, Text |-> StrX],
                      [Type |-> ChangeEqual, OldLine |-> 3, NewLine |-> 3, Text |-> StrC]>>

\* the example diffed: the backtracking stood at (2, 2) on b and x, with
\* lcs[2][1] = lcs[1][2] = 1
C24_Witness ==
    /\ Diffed
    /\ dif.oldText = StrABC /\ dif.newText = StrAXC
    /\ Len(dif.changes) = 4
    /\ StoodAt(dif.changes, 3) = [i |-> 2, j |-> 2]
    /\ LcsAt(dif.old, dif.new, 2, 1) = LcsAt(dif.old, dif.new, 1, 2)
    /\ dif.changes[3].Type = ChangeInsert

\* C25: the file Index.Write makes of an Index with unique, non-empty paths
\* without NUL parses back to exactly the entries of that Index, every field
\* preserved, in strictly ascending order of path; its header count is the
\* number of entries and its trailer the digest of all the bytes before it.
C25_SerializeParseEntries ==
    (ixfile.exists /\ ixres.state # "none" /\ ixres.data = ixfile.data) =>
        /\ ixres.state = "ok"
        /\ Len(ixres.entries) = Len(idx)
        /\ {ixres.entries[i] : i \in DOMAIN ixres.entries} = {idx[i] : i \in DOMAIN idx}
        /\ \A i \in 1..(Len(ixres.entries) - 1) :
              LexLess(ixres.entries[i].Path, ixres.entries[i + 1].Path)
        /\ GetU32(ixfile.data, 8) = Len(idx)
        /\ SubSeq(ixfile.data, EntriesEnd(ixfile.data) + 1, Len(ixfile.data))
              = Sha1Sum(SubSeq(ixfile.data, 1, EntriesEnd(ixfile.data)))

\* the file of "ab" and "d/e/f" read back
C25_Witness ==
    /\ ixfile.exists /\ ixres.state = "ok" /\ ixres.data = ixfile.data
    /\ Len(ixres.entries) = 2
    /\ ixres.entries[1].Path = StrAB /\ ixres.entries[2].Path = StrDEF
    /\ ixres.entries[2].Size = 1 /\ ixres.entries[2].Flags = 5

(***************************************************************************)
(* A writer that died inside WriteObject, and the call made after it.      *)
(***************************************************************************)
\* p died between creating the temp file of its object and renaming it
CrashedBeforeRename(p) ==
    /\ proc[p].pc = "crashed"
    /\ Exists(fs, TmpPath(proc[p].hash))
    /\ ~Exists(fs, ObjPath(proc[p].hash))

\* C28: a WriteObject that crashed after creating the read-only temp file
\* but before the rename does not block later writes: with no other write in
\* flight, the WriteObject of the same object made after the crash succeeds
\* with the object's id and leaves the complete object at its final location.
C28_CrashedWriteDoesNotBlock ==
    \A p \in Procs :
        (/\ CrashedBeforeRename(p)
         /\ \A q \in Procs \ {p} : proc[q].pc \in {"idle", "crashed"})
            => LET later == WriteObject(fs, proc[p].obj, privileged)
               IN  /\ later.pr.ret = RetOk(proc[p].hash)
                   /\ Exists(later.fs, ObjPath(proc[p].hash))
                   /\ FileData(later.fs, ObjPath(proc[p].hash))
                         = Compress(Store(proc[p].obj))

(***************************************************************************)
(* References.  HEAD is one file, a ref is a file below .gogit named by    *)
(* its path ("refs/heads/main"); rf maps the ref paths that exist to the   *)
(* bytes of their files.                                                   *)
(***************************************************************************)
StrRefColon == <<114, 101, 102, 58, 32>>                 \* "ref: "

StrRefsHeads == <<114, 101, 102, 115, 47, 104, 101, 97, 100, 115, 47>>  \* "refs/heads/"

StrMain == <<109, 97, 105, 110>>                         \* "main"

StrDev == <<100, 101, 118>>                              \* "dev"

\* the bytes strings.TrimSpace strips: \t \n \v \f \r and the space
IsSpace(b) == b \in {9, 10, 11, 12, 13, 32}

RECURSIVE TrimLeft(_)
TrimLeft(s) == IF s # <<>> /\ IsSpace(s[1]) THEN TrimLeft(Tail(s)) ELSE s

RECURSIVE TrimRight(_)
TrimRight(s) ==
    IF s # <<>> /\ IsSpace(s[Len(s)]) THEN TrimRight(SubSeq(s, 1, Len(s) - 1)) ELSE s

\* strings.TrimSpace
TrimSpace(s) == TrimRight(TrimLeft(s))

\* strings.HasPrefix
HasPrefix(s, prefix) ==
    Len(s) >= Len(prefix) /\ SubSeq(s, 1, Len(prefix)) = prefix

\* strings.TrimPrefix
TrimPrefix(s, prefix) == IF HasPrefix(s, prefix) THEN SliceFrom(s, Len(prefix)) ELSE s

Resolved(hash) == [ok |-> TRUE, hash |-> hash]

Unresolved == [ok |-> FALSE, hash |-> <<>>]

\* Refs.ResolveRef: a ref that does not exist resolves to "" without error
ResolveRef(rf, refPath) ==
    IF refPath \in DOMAIN rf THEN Resolved(TrimSpace(rf[refPath])) ELSE Resolved(<<>>)

\* Refs.ResolveHead
ResolveHead(hd, rf) ==
    LET Of(headContent) ==
            IF HasPrefix(headContent, StrRefColon)
            THEN ResolveRef(rf, TrimPrefix(headContent, StrRefColon))
            ELSE Resolved(headContent)
    IN  IF ~hd.exists THEN Unresolved ELSE Of(TrimSpace(hd.data))

\* a ref update that stores the abbreviated id
UpdateRefAbbreviated(rf, refPath, commitHash) ==
    MapPut(rf, refPath, Slice(commitHash, 0, 7) \o <<LF>>)

\* Refs.UpdateRef
UpdateRef(rf, refPath, commitHash) == MapPut(rf, refPath, commitHash \o <<LF>>)

RefsOk(hd, rf) == [ok |-> TRUE, head |-> hd, refs |-> rf]

RefsErr(hd, rf) == [ok |-> FALSE, head |-> hd, refs |-> rf]

\* an UpdateHead that always rewrites the HEAD file
UpdateHeadDetaching(hd, rf, target) ==
    IF ~hd.exists THEN RefsErr(hd, rf)
    ELSE RefsOk([exists |-> TRUE, data |-> target \o <<LF>>], rf)

\* Refs.UpdateHead: the branch HEAD names is moved, or the HEAD file itself
UpdateHead(hd, rf, target) ==
    LET Of(headContent) ==
            IF HasPrefix(headContent, StrRefColon)
            THEN RefsOk(hd, UpdateRef(rf, TrimPrefix(headContent, StrRefColon), target))
            ELSE RefsOk([exists |-> TRUE, data |-> target \o <<LF>>], rf)
    IN  IF ~hd.exists THEN RefsErr(hd, rf) ELSE Of(TrimSpace(hd.data))

\* Refs.CurrentBranch; "" stands for the error "HEAD is not on a branch"
CurrentBranch(hd) ==
    LET Of(headContent) ==
            IF hd.exists /\ HasPrefix(headContent, StrRefColon \o StrRefsHeads)
            THEN TrimPrefix(headContent, StrRefColon \o StrRefsHeads)
            ELSE <<>>
    IN  Of(TrimSpace(hd.data))

\* Refs.CreateBranch
CreateBranch(hd, rf, name, commitHash) ==
    IF (StrRefsHeads \o name) \in DOMAIN rf THEN RefsErr(hd, rf)
    ELSE RefsOk(hd, UpdateRef(rf, StrRefsHeads \o name, commitHash))

\* Refs.DeleteBranch
DeleteBranch(hd, rf, name) ==
    IF CurrentBranch(hd) = name \/ (StrRefsHeads \o name) \notin DOMAIN rf
    THEN RefsErr(hd, rf)
    ELSE RefsOk(hd, [q \in (DOMAIN rf) \ {StrRefsHeads \o name} |-> rf[q]])

\* Refs.SetHead
SetHead(target, symbolic) ==
    [exists |-> TRUE,
     data |-> IF symbolic THEN StrRefColon \o StrRefsHeads \o target \o <<LF>>
              ELSE target \o <<LF>>]

\* Refs.GetBranchCommit
GetBranchCommit(rf, branch) == ResolveRef(rf, StrRefsHeads \o branch)

(***************************************************************************)
(* The commands, each a function of the repository on disk                 *)
(*   [fs, ixfile, head, refs, work]                                        *)
(* (object store, index file, HEAD file, ref files, working tree: path to  *)
(* [content, exec]) to the outcome and the repository it leaves.           *)
(***************************************************************************)
CmdOk(r, hash) == [ok |-> TRUE, err |-> "", hash |-> hash, repo |-> r]

CmdErr(r, err) == [ok |-> FALSE, err |-> err, hash |-> <<>>, repo |-> r]

\* FindRepoRoot: the directory .gogit, which init creates with its HEAD
FindRepoRoot(r) == r.head.exists

StrInitialHead == StrRefColon \o StrRefsHeads \o StrMain \o <<LF>>

\* an init that sets up the directory anew whether or not it exists
runInitAnew(r) ==
    CmdOk([r EXCEPT !.fs = EmptyFs, !.head = [exists |-> TRUE, data |-> StrInitialHead]],
          <<>>)

\* runInit
runInit(r) ==
    IF r.head.exists THEN CmdErr(r, "already initialized")
    ELSE CmdOk([r EXCEPT !.head = [exists |-> TRUE, data |-> StrInitialHead]], <<>>)

\* runHashObject with -w, of a file of the working tree
runHashObject(r, path, priv) ==
    LET Written(w) ==
            IF w.pr.ret.ok THEN CmdOk([r EXCEPT !.fs = w.fs], w.pr.ret.hash)
            ELSE CmdErr([r EXCEPT !.fs = w.fs], "failed to write object")
    IN  IF path \notin DOMAIN r.work THEN CmdErr(r, "failed to read file")
        ELSE Written(WriteObject(r.fs, NewBlob(r.work[path].content), priv))

\* Index.AddFile: the entry of the file as it is on disk, upserted
AddFile(entries, path, file) ==
    UpdateEntry(entries, NewEntry(path, SampleUnix, SampleNano, file.exec, file.content))

\* Index.Write
IndexFile(entries) == [exists |-> TRUE, data |-> IndexBytes(SortByPath(entries))]

\* runAdd of one file: ReadIndex, addFile (blob, then entry), Index.Write
runAdd(r, path, priv) ==
    LET Staged(ix, w) ==
            IF ~w.pr.ret.ok THEN CmdErr([r EXCEPT !.fs = w.fs], "failed to write blob")
            ELSE CmdOk([r EXCEPT !.fs = w.fs,
                                 !.ixfile = IndexFile(AddFile(ix.entries, path,
                                                              r.work[path]))],
                       w.pr.ret.hash)
        Loaded(ix) ==
            IF ~ix.ok THEN CmdErr(r, "failed to read index")
            ELSE IF path \notin DOMAIN r.work THEN CmdErr(r, "path not found")
            ELSE Staged(ix, WriteObject(r.fs, NewBlob(r.work[path].content), priv))
    IN  IF ~FindRepoRoot(r) THEN CmdErr(r, "not a gogit repository")
        ELSE Loaded(ReadIndex(r.ixfile))

\* a commit that takes no parent
NoParent(hd, rf) == Resolved(<<>>)

\* runCommit 142: parentHash, _ := repo.Refs.ResolveHead()
ParentOf(hd, rf) == ResolveHead(hd, rf)

\* runCommit: the tree of the index, the commit object, then UpdateHead
runCommit(r, author, message, now, priv, ord) ==
    LET Moved(rr, hash, u) ==
            IF u.ok THEN CmdOk([rr EXCEPT !.head = u.head, !.refs = u.refs], hash)
            ELSE CmdErr(rr, "failed to update HEAD")
        Written(w) ==
            IF ~w.pr.ret.ok THEN CmdErr([r EXCEPT !.fs = w.fs], "failed to write commit")
            ELSE Moved([r EXCEPT !.fs = w.fs], w.pr.ret.hash,
                       UpdateHead(r.head, r.refs, w.pr.ret.hash))
        Built(b) ==
            IF b.state = "panic" THEN CmdErr(r, "panic")
            ELSE IF b.state = "error"
            THEN CmdErr([r EXCEPT !.fs = b.fs], "failed to build tree")
            ELSE Written(WriteObject(b.fs,
                                     NewCommit(b.hash, ParentOf(r.head, r.refs).hash,
                                               author, message, now),
                                     priv))
        Loaded(ix) ==
            IF ~ix.ok THEN CmdErr(r, "failed to read index")
            ELSE IF Len(ix.entries) = 0 THEN CmdErr(r, "nothing to commit")
            ELSE Built(BuildTreeRecursive(r.fs, ix.entries, priv, ord))
    IN  IF ~FindRepoRoot(r) THEN CmdErr(r, "not a gogit repository")
        ELSE Loaded(ReadIndex(r.ixfile))

\* runBranch with a name
runBranch(r, name) ==
    LET Made(at, u) == IF u.ok THEN CmdOk([r EXCEPT !.refs = u.refs], at.hash)
                       ELSE CmdErr(r, "branch already exists")
        At(at) ==
            IF ~at.ok THEN CmdErr(r, "failed to read HEAD")
            ELSE IF at.hash = <<>> THEN CmdErr(r, "cannot create branch: no commits yet")
            ELSE Made(at, CreateBranch(r.head, r.refs, name, at.hash))
    IN  IF ~FindRepoRoot(r) THEN CmdErr(r, "not a gogit repository")
        ELSE At(ResolveHead(r.head, r.refs))

\* runBranch with -d
runBranchDelete(r, name) ==
    LET Gone(u) == IF u.ok THEN CmdOk([r EXCEPT !.refs = u.refs], <<>>)
                   ELSE CmdErr(r, "failed to delete branch")
    IN  IF ~FindRepoRoot(r) THEN CmdErr(r, "not a gogit repository")
        ELSE Gone(DeleteBranch(r.head, r.refs, name))

\* a path of the working tree below the directory name
IsDir(wk, name) == \E q \in DOMAIN wk : HasPrefix(q, name \o <<SlashCh>>)

\* the one value of a set of one value: Only({F(x) : x \in {e}}) is F of the
\* value of e, computed once
Only(S) == CHOOSE v \in S : TRUE

\* checkoutCommit, the loop over the entries of the root tree, from entry i:
\* each entry whose object is a Blob is written to the working tree (a file
\* that exists keeps its mode) and staged from the file written; every other
\* entry is passed over
RECURSIVE checkoutEntries(_, _, _, _, _)
checkoutEntries(f, entries, i, wk, staged) ==
    IF i > Len(entries) THEN [ok |-> TRUE, work |-> wk, entries |-> staged]
    ELSE Only({
        IF ~blobObj.ok THEN [ok |-> FALSE, work |-> wk, entries |-> staged]
        ELSE IF blobObj.obj.kind # "blob"
        THEN checkoutEntries(f, entries, i + 1, wk, staged)
        ELSE IF IsDir(wk, entries[i].Name)
        THEN [ok |-> FALSE, work |-> wk, entries |-> staged]
        ELSE Only({checkoutEntries(f, entries, i + 1,
                                   MapPut(wk, entries[i].Name, file),
                                   AddFile(staged, entries[i].Name, file)) :
                   file \in {[content |-> blobObj.obj.content,
                              exec |-> IF entries[i].Name \in DOMAIN wk
                                       THEN wk[entries[i].Name].exec
                                       ELSE entries[i].Mode = FmtOctal(ModeExecutable)]}})
        : blobObj \in {ReadObject(f, entries[i].Hash)}})

\* checkoutCommit: the commit, its tree, the loop, Index.Write
checkoutCommit(r, commitHash) ==
    Only({
        IF ~obj.ok THEN CmdErr(r, "failed to read commit")
        ELSE IF obj.obj.kind # "commit" THEN CmdErr(r, "object is not a commit")
        ELSE Only({
            IF ~treeObj.ok THEN CmdErr(r, "failed to read tree")
            ELSE IF treeObj.obj.kind # "tree" THEN CmdErr(r, "object is not a tree")
            ELSE Only({
                IF ~c.ok THEN CmdErr([r EXCEPT !.work = c.work], "failed to write file")
                ELSE CmdOk([r EXCEPT !.work = c.work, !.ixfile = IndexFile(c.entries)],
                           commitHash)
                : c \in {checkoutEntries(r.fs, treeObj.obj.Entries, 1, r.work, <<>>)}})
            : treeObj \in {ReadObject(r.fs, obj.obj.TreeHash)}})
        : obj \in {ReadObject(r.fs, commitHash)}})

\* runCheckout: with -b the branch is created at the commit of HEAD and HEAD
\* set to it; otherwise the target is a branch name first, then an object id,
\* the commit is checked out and HEAD set
runCheckout(r, target, create) ==
    IF ~FindRepoRoot(r) THEN CmdErr(r, "not a gogit repository")
    ELSE IF create
    THEN Only({
        IF ~at.ok \/ at.hash = <<>>
        THEN CmdErr(r, "cannot create branch: no commits yet")
        ELSE Only({
            IF u.ok
            THEN CmdOk([r EXCEPT !.refs = u.refs, !.head = SetHead(target, TRUE)], at.hash)
            ELSE CmdErr(r, "branch already exists")
            : u \in {CreateBranch(r.head, r.refs, target, at.hash)}})
        : at \in {ResolveHead(r.head, r.refs)}})
    ELSE Only({
        IF ~at.ok THEN CmdErr(r, "pathspec did not match any branch or commit")
        ELSE Only({
            IF c.ok THEN [c EXCEPT !.repo.head = SetHead(target, at.symbolic)] ELSE c
            : c \in {checkoutCommit(r, at.hash)}})
        : at \in {Only({
            IF branchCommit.ok /\ branchCommit.hash # <<>>
            THEN [ok |-> TRUE, hash |-> branchCommit.hash, symbolic |-> TRUE]
            ELSE Only({
                IF Len(target) >= 4 /\ obj.ok /\ obj.obj.kind = "commit"
                THEN [ok |-> TRUE, hash |-> target, symbolic |-> FALSE]
                ELSE [ok |-> FALSE, hash |-> <<>>, symbolic |-> FALSE]
                : obj \in {ReadObject(r.fs, target)}})
            : branchCommit \in {GetBranchCommit(r.refs, target)}})}})

\* runLog, the walk from commitHash: the ids visited, and how the walk ends
\* ("root": a commit without parent; "error": an object that is missing or
\* not a commit; "more": fuel commits visited and the walk still goes on)
RECURSIVE logWalk(_, _, _, _)
logWalk(f, commitHash, fuel, seen) ==
    IF commitHash = <<>> THEN [stop |-> "root", ids |-> seen]
    ELSE IF fuel = 0 THEN [stop |-> "more", ids |-> seen]
    ELSE LET Parent(obj) ==
                 IF ~obj.ok \/ obj.obj.kind # "commit"
                 THEN [stop |-> "error", ids |-> seen]
                 ELSE logWalk(f, obj.obj.ParentHash, fuel - 1, Append(seen, commitHash))
         IN  Parent(ReadObject(f, commitHash))

(***************************************************************************)
(* SpecRepo: one user works in one directory, one command after another:   *)
(* init, hash-object -w, add, commit, branch, branch -d, checkout,         *)
(* checkout -b and log, and edits of the files in between.  ncalls counts  *)
(* the steps of the session; the clock advances a second with each; pool   *)
(* lists the ids the commits reported, which the user may check out.       *)
(***************************************************************************)
MaxCmds == 5

RepoPaths == {StrB, StrAslashC}

Contents == {StrHi, StrX}

Branches == {StrMain, StrDev}

WorkStart ==
    MapPut(MapPut(<<>>, StrB, [content |-> StrHi, exec |-> FALSE]),
           StrAslashC, [content |-> StrX, exec |-> TRUE])

Repo == [fs |-> fs, ixfile |-> ixfile, head |-> head, refs |-> refs, work |-> work]

\* the ids under which the object store holds a file
StoredIds(f) == {p.dir \o p.name : p \in DOMAIN f.dirent}

InitRepo ==
    /\ fs = EmptyFs
    /\ privileged = FALSE
    /\ ixfile = NoFile /\ ixres = NoParse
    /\ head = NoFile
    /\ refs = <<>>
    /\ work = WorkStart
    /\ cmd = NoCmd
    /\ zone = NoZone
    /\ pool = <<>>
    /\ rd = NoRead
    /\ DiffIdle /\ StoreIdle /\ SeqIdle /\ ReadIdle /\ TreeIdle

Range(s) == {s[i] : i \in DOMAIN s}

\* a command ran: the repository it leaves and what it reported.  A command
\* that fails and leaves the repository as it was is no step of the session,
\* except a commit, whose refusals are kept.
Ran(op, res) ==
    /\ ncalls < MaxCmds
    /\ res.ok \/ res.repo # Repo \/ op = "commit"
    /\ fs' = res.repo.fs
    /\ ixfile' = res.repo.ixfile
    /\ head' = res.repo.head
    /\ refs' = res.repo.refs
    /\ work' = res.repo.work
    /\ cmd' = [op |-> op, ok |-> res.ok, err |-> res.err, hash |-> res.hash]
    /\ ncalls' = ncalls + 1
    /\ pool' = IF op = "commit" /\ res.ok /\ res.hash \notin Range(pool)
               THEN Append(pool, res.hash) ELSE pool
    /\ UNCHANGED <<privileged, proc, rd, log, input, idx, tree, built, ixres, dif, zone>>

RepoInit ==
    Ran("init", runInit(Repo))

HashObjectW(path) ==
    Ran("hash-object", runHashObject(Repo, path, privileged))

Add(path) ==
    Ran("add", runAdd(Repo, path, privileged))

Commit(ord) ==
    Ran("commit", runCommit(Repo, AuthorId, MsgM, TimeOf(SampleUnix + ncalls, 0),
                            privileged, ord))

Branch(name) ==
    Ran("branch", runBranch(Repo, name))

BranchDelete(name) ==
    Ran("branch -d", runBranchDelete(Repo, name))

Checkout(target) ==
    Ran("checkout", runCheckout(Repo, target, FALSE))

CheckoutNew(name) ==
    Ran("checkout -b", runCheckout(Repo, name, TRUE))

\* runLog: the walk from what HEAD resolves to; the store bounds its length
Log ==
    /\ ncalls < MaxCmds
    /\ FindRepoRoot(Repo)
    /\ ncalls' = ncalls + 1
    /\ \E walk \in {logWalk(fs, ResolveHead(head, refs).hash,
                            Cardinality(StoredIds(fs)) + 1, <<>>)} :
          /\ log' = walk.ids
          /\ cmd' = [op |-> "log", ok |-> walk.stop = "root", err |-> walk.stop,
                     hash |-> <<>>]
    /\ UNCHANGED <<fs, privileged, proc, rd, input, idx, tree, built, pool, ixfile, ixres, dif, head, refs, work, zone>>

\* the user's editor saves a file of the working tree with other content
Edit(path, content) ==
    /\ work[path].content # content
    /\ ncalls < MaxCmds
    /\ ncalls' = ncalls + 1
    /\ work' = [work EXCEPT ![path].content = content]
    /\ cmd' = [NoCmd EXCEPT !.op = "edit"]
    /\ UNCHANGED <<fs, privileged, proc, rd, log, input, idx, tree, built, pool, ixfile, ixres, dif, head, refs, zone>>

NextRepo ==
    \/ RepoInit
    \/ HashObjectW(StrB)
    \/ \E path \in RepoPaths : Add(path)
    \/ \E ord \in {"asc", "desc"} : Commit(ord)
    \/ \E name \in Branches : Branch(name)
    \/ \E name \in Branches : BranchDelete(name)
    \/ \E target \in Branches \cup Range(pool) : Checkout(target)
    \/ \E name \in Branches : CheckoutNew(name)
    \/ Log
    \/ \E content \in Contents : Edit(StrB, content)

SpecRepo == InitRepo /\ [][NextRepo]_vars

\* the framed bytes ("<type> <size>\0<content>") the file stored under id
\* decompresses to
Decoded(f, id) == Decompress(ReadFile(f, ObjPath(id)).data)

\* C21: stored objects are immutable and never deleted: across every step of
\* a session of init, hash-object -w, add, commit, branch and checkout, an id
\* present in the object store stays present and decodes to the same type and
\* content.
C21_ObjectsImmutable ==
    [][\A id \in StoredIds(fs) :
          LET before == Decoded(fs, id)
          IN  /\ before.ok
              /\ fs' # fs =>
                    /\ id \in StoredIds(fs')
                    /\ Decoded(fs', id) = before
                    /\ ReadObject(fs', id) = ReadObject(fs, id)]_vars

\* a second commit was stored on top of the objects of the first
C21_Witness ==
    /\ cmd.op = "commit" /\ cmd.ok
    /\ Len(pool) = 2
    /\ Cardinality(StoredIds(fs)) >= 5

\* the (path, id) pairs of the entries of the index file
IndexPairs(file) ==
    LET ix == ReadIndex(file)
    IN  {[Path |-> ix.entries[i].Path, Hash |-> HashString(ix.entries[i])] :
            i \in DOMAIN ix.entries}

\* the (path, id) pairs of the files recorded in the hierarchy of a tree
TreePairs(f, treeHash) ==
    {[Path |-> e.Path, Hash |-> e.Hash] : e \in TreeFiles(f, treeHash, <<>>)}

\* C22: checkout replaces the index wholesale: after a successful checkout
\* of commit C the index file holds exactly one entry per file recorded in
\* the tree hierarchy of C, at every directory depth, with that file's path
\* and blob id, and no entry staged before.
C22_CheckoutReplacesIndex ==
    (cmd.op = "checkout" /\ cmd.ok)
        => /\ ReadIndex(ixfile).ok
           /\ Cardinality(IndexPairs(ixfile)) = Len(ReadIndex(ixfile).entries)
           /\ IndexPairs(ixfile) = TreePairs(fs, ReadObject(fs, cmd.hash).obj.TreeHash)

\* the step is a run of commit
CommitStep == ncalls' = ncalls + 1 /\ cmd'.op = "commit"

\* the (path, mode, id) triples staged in the index file
StagedSet(file) ==
    LET ix == ReadIndex(file)
    IN  {[Path |-> ix.entries[i].Path, Mode |-> FmtOctal(ix.entries[i].Mode),
          Hash |-> HashString(ix.entries[i])] : i \in DOMAIN ix.entries}

\* the header lines of the commit stored under id that start with "parent "
ParentLines(f, id) ==
    LET framed == Decoded(f, id).data
        body == SliceFrom(framed, IndexByte(framed, NUL) + 1)
        lines == Split(body, LF)
    IN  {i \in DOMAIN lines : HasPrefix(lines[i], StrParent \o <<SP>>)}

\* C26: each successful commit stores a Commit whose tree is the hierarchy
\* built from the current index and whose parent is the commit HEAD resolved
\* to just before (no parent line when HEAD resolved to nothing), and
\* afterwards HEAD resolves to the new commit's id; a commit with an empty
\* index fails and changes neither objects nor refs.
C26_CommitRecordsTreeAndParent ==
    [][CommitStep =>
          /\ cmd'.ok =>
                LET c == ReadObject(fs', cmd'.hash)
                    before == ResolveHead(head, refs).hash
                IN  /\ c.ok /\ c.obj.kind = "commit"
                    /\ TreeFiles(fs', c.obj.TreeHash, <<>>) = StagedSet(ixfile)
                    /\ c.obj.ParentHash = before
                    /\ before = <<>> => ParentLines(fs', cmd'.hash) = {}
                    /\ before # <<>> => /\ ParentLines(fs', cmd'.hash) = {2}
                                        /\ ReadObject(fs, before).obj.kind = "commit"
                    /\ ResolveHead(head', refs') = Resolved(cmd'.hash)
          /\ StagedSet(ixfile) = {} =>
                /\ ~cmd'.ok
                /\ fs' = fs /\ refs' = refs /\ head' = head]_vars

\* a commit was stored whose parent is the commit made before it
C26_Witness ==
    /\ cmd.op = "commit" /\ cmd.ok
    /\ ReadObject(fs, cmd.hash).obj.ParentHash # <<>>
    /\ ResolveHead(head, refs).hash = cmd.hash

\* the ids HEAD and the branch refs resolve to
Tips ==
    (IF head.exists THEN {ResolveHead(head, refs).hash} ELSE {})
        \cup {ResolveRef(refs, q).hash : q \in DOMAIN refs}

\* the log walk from a tip, given one step more than the store has objects
WalkFrom(tip) == logWalk(fs, tip, Cardinality(StoredIds(fs)) + 1, <<>>)

NoRepeat(s) == \A i, j \in DOMAIN s : s[i] = s[j] => i = j

\* C27: after any sequence of init, add, commit, branch and checkout, every
\* commit reachable from HEAD or a branch ref has a parent that is absent or
\* the id of a Commit in the store, the parent relation has no cycle, and the
\* log walk from HEAD ends at a parentless root commit after visiting each
\* ancestor once.
C27_HistoryWellFounded ==
    /\ \A walk \in {WalkFrom(tip) : tip \in Tips} :
          /\ walk.stop = "root"
          /\ NoRepeat(walk.ids)
          /\ \A i \in DOMAIN walk.ids :
                LET parent == ReadObject(fs, walk.ids[i]).obj.ParentHash
                IN  parent # <<>> =>
                       /\ parent \in StoredIds(fs)
                       /\ ReadObject(fs, parent).obj.kind = "commit"
    /\ cmd.op = "log" =>
          /\ cmd.ok
          /\ NoRepeat(log)
          /\ log = WalkFrom(ResolveHead(head, refs).hash).ids
          /\ log # <<>> => ReadObject(fs, log[Len(log)]).obj.ParentHash = <<>>

\* log walked a history of two commits, from HEAD down to the root
C27_Witness ==
    /\ cmd.op = "log" /\ cmd.ok
    /\ Len(log) = 2
    /\ ReadObject(fs, log[1]).obj.ParentHash = log[2]

\* the ref path HEAD names when it is symbolic, "" when it is detached
Designated(hd) ==
    LET Of(headContent) ==
            IF HasPrefix(headContent, StrRefColon)
            THEN TrimPrefix(headContent, StrRefColon) ELSE <<>>
    IN  Of(TrimSpace(hd.data))

\* C30: a successful commit changes only the ref HEAD designates (the ref of
\* the current branch when HEAD is symbolic, the HEAD file when detached) and
\* adds objects: the index file, every other branch ref, the HEAD file when
\* symbolic, and all objects stored before are unchanged.
C30_CommitFrame ==
    [][(CommitStep /\ cmd'.ok) =>
          /\ ixfile' = ixfile
          /\ work' = work
          /\ \A id \in StoredIds(fs) :
                id \in StoredIds(fs') /\ Decoded(fs', id) = Decoded(fs, id)
          /\ IF Designated(head) # <<>>
             THEN /\ head' = head
                  /\ DOMAIN refs' = DOMAIN refs \cup {Designated(head)}
                  /\ \A q \in DOMAIN refs \ {Designated(head)} : refs'[q] = refs[q]
                  /\ refs'[Designated(head)] = cmd'.hash \o <<LF>>
             ELSE /\ refs' = refs
                  /\ head' = [exists |-> TRUE, data |-> cmd'.hash \o <<LF>>]]_vars

\* a commit on one branch while a second branch points at an older commit
C30_Witness ==
    /\ cmd.op = "commit" /\ cmd.ok
    /\ Designated(head) \in DOMAIN refs
    /\ Cardinality(DOMAIN refs) = 2
    /\ \E q \in DOMAIN refs : ResolveRef(refs, q).hash # cmd.hash

(***************************************************************************)
(* SpecStage: add commands run one after another in an initialised         *)
(* repository, each in its steps (ReadIndex, the blob of the file, the     *)
(* entry of the file, Index.Write), while the user's editor saves files of  *)
(* the working tree at any moment.  ncalls counts the saves.               *)
(***************************************************************************)
MaxSaves == 2

InitStage ==
    /\ fs = EmptyFs
    /\ privileged = FALSE
    /\ ixfile = NoFile /\ ixres = NoParse
    /\ head = [exists |-> TRUE, data |-> StrInitialHead]
    /\ refs = <<>>
    /\ work = WorkStart
    /\ cmd = NoCmd
    /\ zone = NoZone
    /\ pool = <<>>
    /\ rd = NoRead
    /\ proc = [p \in Procs |-> AddIdle]
    /\ ncalls = 0
    /\ DiffIdle /\ SeqIdle /\ ReadIdle /\ TreeIdle

\* runAdd 26-35, once no other add is running: FindRepoRoot, ReadIndex
StageRead(p, path) ==
    /\ proc[p].pc = "start"
    /\ \A q \in Procs \ {p} : proc[q].pc \in {"start", "done", "failed"}
    /\ FindRepoRoot(Repo)
    /\ \E r \in {ReadIndex(ixfile)} :
          proc' = [proc EXCEPT ![p] =
                      IF r.ok
                      THEN [@ EXCEPT !.pc = "blob", !.file = path, !.entries = r.entries]
                      ELSE [@ EXCEPT !.pc = "failed", !.file = path,
                                     !.err = "failed to read index"]]
    /\ UNCHANGED <<fs, privileged, ncalls, rd, log, input, idx, tree, built, pool, ixfile, ixres, dif, head, refs, work, cmd, zone>>

\* addFile 101-111: os.ReadFile, NewBlob, WriteObject
StageBlob(p) ==
    /\ proc[p].pc = "blob"
    /\ \E w \in {WriteObject(fs, NewBlob(work[proc[p].file].content), privileged)} :
          /\ fs' = w.fs
          /\ proc' = [proc EXCEPT ![p] =
                         IF w.pr.ret.ok THEN [@ EXCEPT !.pc = "entry", !.buf = w.pr.ret.hash]
                         ELSE [@ EXCEPT !.pc = "failed", !.err = "failed to write blob"]]
    /\ UNCHANGED <<privileged, ncalls, rd, log, input, idx, tree, built, pool, ixfile, ixres, dif, head, refs, work, cmd, zone>>

\* addFile 114, Index.AddFile: os.Stat and os.ReadFile of the file as it is
\* now, its hash, UpdateEntry
StageEntry(p) ==
    /\ proc[p].pc = "entry"
    /\ proc' = [proc EXCEPT ![p] =
                   [@ EXCEPT !.pc = "write",
                             !.entries = AddFile(@, proc[p].file, work[proc[p].file])]]
    /\ UNCHANGED <<fs, privileged, ncalls, rd, log, input, idx, tree, built, pool, ixfile, ixres, dif, head, refs, work, cmd, zone>>

\* runAdd 57: Index.Write
StageWrite(p) ==
    /\ proc[p].pc = "write"
    /\ ixfile' = IndexFile(proc[p].entries)
    /\ proc' = [proc EXCEPT ![p].pc = "done"]
    /\ UNCHANGED <<fs, privileged, ncalls, rd, log, input, idx, tree, built, pool, ixres, dif, head, refs, work, cmd, zone>>

\* the editor saves a file with other content
Save(path, content) ==
    /\ ncalls < MaxSaves
    /\ work[path].content # content
    /\ ncalls' = ncalls + 1
    /\ work' = [work EXCEPT ![path].content = content]
    /\ UNCHANGED <<fs, privileged, proc, rd, log, input, idx, tree, built, pool, ixfile, ixres, dif, head, refs, cmd, zone>>

NextStage ==
    \/ \E p \in Procs, path \in RepoPaths : StageRead(p, path)
    \/ \E p \in Procs : StageBlob(p)
    \/ \E p \in Procs : StageEntry(p)
    \/ \E p \in Procs : StageWrite(p)
    \/ \E path \in RepoPaths, content \in Contents : Save(path, content)

SpecStage == InitStage /\ [][NextStage]_vars

\* C29: every entry that add or checkout records in the index file carries a
\* content id under which a Blob is present in the object store, also when
\* the file is modified between the read that makes the blob and the read
\* that makes the entry.
C29_EntriesHaveBlobs ==
    \A e \in IndexPairs(ixfile) :
        /\ e.Hash \in StoredIds(fs)
        /\ ReadObject(fs, e.Hash).ok
        /\ ReadObject(fs, e.Hash).obj.kind = "blob"

=============================================================================
